---- MODULE Spec2Model ----
(***************************************************************************)
(* Work-entry workflow of the Wegewart application.                        *)
(*                                                                         *)
(* The handler families modelled, each over the table it reads and writes: *)
(*   - the JSON blueprint of src/src/routes_jobs.py  (table "jobs"),       *)
(*   - the form routes of src/src/app.py  (table "arbeitseinsaetze"),      *)
(*   - the JSON blueprint of src/src/routes/jobs.py  (table "jobs" with    *)
(*     other column names),                                                *)
(*   - the routes of src/src/routes_machines.py  (table "machines"),       *)
(*   - the role resolvers of routes_jobs.py and app.py.                    *)
(* Status vocabulary of the code:                                          *)
(*   erfasst = submitted, freigegeben / freigegeben_ov = approved,         *)
(*   abgerechnet = billed, abgelehnt = rejected.                           *)
(* Role vocabulary of the code:                                            *)
(*   wegewart = worker, ortsvorsteher = supervisor,                        *)
(*   verwaltung = administration, admin = admin.                           *)
(***************************************************************************)
EXTENDS Integers, Sequences, FiniteSets, TLC

VARIABLES
    jobs,              \* table jobs: id -> row               (routes_jobs.py)
    jobs_seq,          \* last rowid handed out for jobs
    arbeitseinsaetze,  \* table arbeitseinsaetze: id -> row   (app.py)
    ae_seq,            \* last rowid handed out for arbeitseinsaetze
    response,          \* what the last mutating request answered
    listing,           \* what the last list request rendered
    conn,              \* the requests in flight, one store connection each
    machines,          \* table machines: id -> row          (routes_machines.py)
    machines_seq,      \* last rowid handed out for machines
    stored_roles,      \* column roles of the user row a role resolver is asked about
    resolved           \* what the last call of a role resolver answered

vars == <<jobs, jobs_seq, arbeitseinsaetze, ae_seq, response, listing, conn,
          machines, machines_seq, stored_roles, resolved>>

(***************************************************************************)
(* Bounds                                                                  *)
(***************************************************************************)
MaxJobs == 1        \* rows ever inserted into jobs when every request is explored
MaxIds  == 2        \* length of the id list of a batch request
MaxEinsaetze == 1   \* rows ever inserted into arbeitseinsaetze when every request is explored
MaxListRows == 2    \* rows of a table that a list request is explored on
MaxBatchRows == 2   \* rows ever inserted when only the batch requests are explored
MaxConns == 2       \* batch requests in flight at once
MaxRaceRows == 1    \* rows the requests in flight work on

(***************************************************************************)
(* Python None / SQL NULL.  Integer columns (ids) use NULL, text columns   *)
(* use None, so that every column keeps one type.                          *)
(***************************************************************************)
NULL == 0
None == "None"

(***************************************************************************)
(* The user table.  Role strings are kept as the stored text, one symbol   *)
(* per word, comma or blank, and are decoded only by the resolvers below.  *)
(***************************************************************************)
user ==
    (1 :> [ortsteil |-> "Krenkingen",  roles |-> <<"wegewart">>]) @@
    (2 :> [ortsteil |-> "Breitenfeld", roles |-> <<"wegewart">>]) @@
    (3 :> [ortsteil |-> "Krenkingen",  roles |-> <<"ortsvorsteher", ",", "wegewart">>]) @@
    (4 :> [ortsteil |-> "Breitenfeld", roles |-> <<"ortsvorsteher">>]) @@
    (5 :> [ortsteil |-> "Verwaltung",  roles |-> <<"admin">>]) @@
    (6 :> [ortsteil |-> "Verwaltung",  roles |-> <<"verwaltung">>]) @@
    (7 :> [ortsteil |-> "Krenkingen",  roles |-> <<"ortsvorsteher", ",", " ", "admin">>])

Actors == DOMAIN user

(***************************************************************************)
(* str.split(',') and str.strip()                                          *)
(***************************************************************************)
RECURSIVE split(_)
split(s) ==
    IF \A i \in 1..Len(s) : s[i] # ","
    THEN <<s>>
    ELSE LET k == CHOOSE i \in 1..Len(s) :
                      s[i] = "," /\ \A j \in 1..(i-1) : s[j] # ","
         IN  <<SubSeq(s, 1, k-1)>> \o split(SubSeq(s, k+1, Len(s)))

\* strip that takes the blanks off the front only
RECURSIVE strip_front_only(_)
strip_front_only(t) ==
    IF t # <<>> /\ Head(t) = " " THEN strip_front_only(Tail(t)) ELSE t

RECURSIVE strip(_)
strip(t) ==
    IF t # <<>> /\ Head(t) = " " THEN strip(Tail(t))
    ELSE IF t # <<>> /\ t[Len(t)] = " " THEN strip(SubSeq(t, 1, Len(t)-1))
    ELSE t

\* routes_jobs.get_user_roles: the list of stripped tokens
get_user_roles(u) ==
    IF u.roles = <<>> THEN <<>>
    ELSE [i \in 1..Len(split(u.roles)) |-> strip(split(u.roles)[i])]

\* python: r in roles
in_roles(r, roles) == \E i \in DOMAIN roles : roles[i] = <<r>>

\* routes_jobs.get_user_villages
get_user_villages(u) == <<u.ortsteil>>

in_villages(o, villages) == \E i \in DOMAIN villages : villages[i] = o

\* app.has_role(user_roles, role)
has_role(user_roles, role) ==
    IF user_roles = <<>> THEN FALSE
    ELSE \E i \in 1..Len(split(user_roles)) : strip(split(user_roles)[i]) = <<role>>

(***************************************************************************)
(* Request payloads: python dicts, i.e. functions from the keys present.   *)
(* Every value is the text the client sent.                                *)
(***************************************************************************)
has(data, k) == k \in DOMAIN data

\* dict.get(k, default)
get(data, k, default) == IF has(data, k) THEN data[k] ELSE default

\* int(text): defined on these texts, raises on every other
IntText == ("0" :> 0) @@ ("1" :> 1) @@ ("2" :> 2) @@ ("9" :> 9)
can_int(v) == v \in DOMAIN IntText
int(v) == IntText[v]

\* float(text), in tenths of an hour: defined on these texts, raises on others
FloatText == ("4.5" :> 45) @@ ("0" :> 0) @@ ("-1" :> (0 - 10))
can_float(v) == v \in DOMAIN FloatText
float(v) == FloatText[v]

(***************************************************************************)
(* Table jobs                                                              *)
(***************************************************************************)
Ids == 1..MaxJobs

\* SELECT * FROM jobs WHERE id = ?   (fetchone: a row or nothing)
found(tbl, id) == id \in DOMAIN tbl

\* SELECT ortsteil FROM user WHERE id = ?
user_found(uid) == uid \in DOMAIN user

\* the INSERT of create_job; columns the statement does not name are NULL
new_job(user_id, data, machine_used) ==
    [user_id                 |-> user_id,
     datum                   |-> data["datum"],
     arbeitsstunden          |-> float(data["arbeitsstunden"]),
     taetigkeitsbeschreibung |-> data["taetigkeitsbeschreibung"],
     machine_used            |-> machine_used,
     status                  |-> get(data, "status", "erfasst"),
     rejection_reason        |-> None,
     checked_by              |-> NULL,
     checked_time            |-> None]

\* what a handler answers: the HTTP status and, for a batch, the count in the message
NoListing == [op |-> "none", actor |-> NULL, rows |-> {}, wegewarte |-> {}]

Respond(op, code, msg, count) == [op |-> op, code |-> code, msg |-> msg, count |-> count]

\* routes_jobs.create_job
create_job(a, data) ==
    LET roles   == get_user_roles(user[a])
        uid_bad == has(data, "user_id") /\ ~can_int(data["user_id"])
        user_id == IF has(data, "user_id") THEN int(data["user_id"]) ELSE a
        denied  == user_id # a /\ ~(in_roles("admin", roles) \/ in_roles("ortsvorsteher", roles))
        mu      == get(data, "machine_used", None)
        machine_used == IF mu = "" THEN None ELSE mu
        raises  == \/ ~has(data, "datum")
                   \/ ~has(data, "arbeitsstunden")
                   \/ ~can_float(data["arbeitsstunden"])
                   \/ ~has(data, "taetigkeitsbeschreibung")
    IN  /\ IF uid_bad
           THEN /\ response' = Respond("create_job", 400, "exception", 0)
                /\ UNCHANGED <<jobs, jobs_seq>>
           ELSE IF denied
           THEN /\ response' = Respond("create_job", 403, "Keine Berechtigung", 0)
                /\ UNCHANGED <<jobs, jobs_seq>>
           ELSE IF raises
           THEN /\ response' = Respond("create_job", 400, "exception", 0)
                /\ UNCHANGED <<jobs, jobs_seq>>
           ELSE /\ jobs' = jobs @@ ((jobs_seq + 1) :> new_job(user_id, data, machine_used))
                /\ jobs_seq' = jobs_seq + 1
                /\ response' = Respond("create_job", 200, "job_id", 0)
        /\ UNCHANGED <<arbeitseinsaetze, ae_seq, listing, conn, machines, machines_seq, stored_roles, resolved>>

\* the row a request names: the id column compares by integer affinity
job_id_of(data) ==
    IF has(data, "job_id") /\ can_int(data["job_id"]) THEN int(data["job_id"]) ELSE NULL

\* update_job / delete_job: the permission decision; job_user may be missing
can_edit(a, roles, villages, job) ==
    IF in_roles("admin", roles) THEN TRUE
    ELSE IF in_roles("ortsvorsteher", roles) /\ in_villages(user[job.user_id].ortsteil, villages)
    THEN TRUE
    ELSE job.user_id = a /\ job.status # "freigegeben"

\* job_user['ortsteil'] on a missing user row raises TypeError
ortsteil_raises(roles, job) ==
    /\ ~in_roles("admin", roles)
    /\ in_roles("ortsvorsteher", roles)
    /\ ~user_found(job.user_id)

privileged(roles) == in_roles("admin", roles) \/ in_roles("ortsvorsteher", roles)

\* apply_patch that stamps the reviewer on every update
apply_patch_stamps_always(a, roles, data, job) ==
    LET r1 == IF has(data, "datum") THEN [job EXCEPT !.datum = data["datum"]] ELSE job
        r2 == IF has(data, "user_id") /\ (in_roles("admin", roles) \/ in_roles("ortsvorsteher", roles))
              THEN [r1 EXCEPT !.user_id = int(data["user_id"])] ELSE r1
        r3 == IF has(data, "taetigkeitsbeschreibung")
              THEN [r2 EXCEPT !.taetigkeitsbeschreibung = data["taetigkeitsbeschreibung"]] ELSE r2
        r4 == IF has(data, "arbeitsstunden")
              THEN [r3 EXCEPT !.arbeitsstunden = float(data["arbeitsstunden"])] ELSE r3
        r5 == IF has(data, "machine_used")
              THEN [r4 EXCEPT !.machine_used =
                        IF data["machine_used"] = "" THEN None ELSE data["machine_used"]]
              ELSE r4
        r6 == IF has(data, "status") /\ (in_roles("admin", roles) \/ in_roles("ortsvorsteher", roles))
              THEN [r5 EXCEPT !.status = data["status"]]
              ELSE r5
    IN  [r6 EXCEPT !.checked_by = a, !.checked_time = "CURRENT_TIMESTAMP"]

\* update_job: the columns the UPDATE statement sets, applied to the row
apply_patch(a, roles, data, job) ==
    LET r1 == IF has(data, "datum") THEN [job EXCEPT !.datum = data["datum"]] ELSE job
        r2 == IF has(data, "user_id") /\ privileged(roles)
              THEN [r1 EXCEPT !.user_id = int(data["user_id"])] ELSE r1
        r3 == IF has(data, "taetigkeitsbeschreibung")
              THEN [r2 EXCEPT !.taetigkeitsbeschreibung = data["taetigkeitsbeschreibung"]] ELSE r2
        r4 == IF has(data, "arbeitsstunden")
              THEN [r3 EXCEPT !.arbeitsstunden = float(data["arbeitsstunden"])] ELSE r3
        r5 == IF has(data, "machine_used")
              THEN [r4 EXCEPT !.machine_used =
                        IF data["machine_used"] = "" THEN None ELSE data["machine_used"]]
              ELSE r4
        r6 == IF has(data, "status") /\ privileged(roles)
              THEN IF data["status"] \in {"freigegeben", "abgelehnt"}
                   THEN [r5 EXCEPT !.status = data["status"],
                                   !.checked_by = a,
                                   !.checked_time = "CURRENT_TIMESTAMP"]
                   ELSE [r5 EXCEPT !.status = data["status"]]
              ELSE r5
    IN  r6

\* update_job: the patch names no column the actor may set
no_updates(roles, data) ==
    /\ ~has(data, "datum")
    /\ ~(has(data, "user_id") /\ privileged(roles))
    /\ ~has(data, "taetigkeitsbeschreibung")
    /\ ~has(data, "arbeitsstunden")
    /\ ~has(data, "machine_used")
    /\ ~(has(data, "status") /\ privileged(roles))

patch_raises(roles, data) ==
    \/ has(data, "user_id") /\ privileged(roles) /\ ~can_int(data["user_id"])
    \/ has(data, "arbeitsstunden") /\ ~can_float(data["arbeitsstunden"])

\* routes_jobs.update_job
update_job(a, data) ==
    LET job_id   == job_id_of(data)
        roles    == get_user_roles(user[a])
        villages == get_user_villages(user[a])
        answer   == IF ~found(jobs, job_id) THEN <<404, "Job nicht gefunden">>
                    ELSE IF ortsteil_raises(roles, jobs[job_id]) THEN <<400, "exception">>
                    ELSE IF ~can_edit(a, roles, villages, jobs[job_id])
                    THEN <<403, "Keine Berechtigung">>
                    ELSE IF patch_raises(roles, data) THEN <<400, "exception">>
                    ELSE IF no_updates(roles, data) THEN <<400, "Keine Aenderungen">>
                    ELSE <<200, "">>
        code     == answer[1]
    IN  /\ jobs' = IF code = 200
                   THEN [jobs EXCEPT ![job_id] = apply_patch(a, roles, data, jobs[job_id])]
                   ELSE jobs
        /\ response' = Respond("update_job", code, answer[2], 0)
        /\ UNCHANGED <<jobs_seq, arbeitseinsaetze, ae_seq, listing, conn, machines, machines_seq, stored_roles, resolved>>

\* routes_jobs.delete_job
delete_job(a, data) ==
    LET job_id   == job_id_of(data)
        roles    == get_user_roles(user[a])
        villages == get_user_villages(user[a])
        answer   == IF ~found(jobs, job_id) THEN <<404, "Job nicht gefunden">>
                    ELSE IF ortsteil_raises(roles, jobs[job_id]) THEN <<400, "exception">>
                    ELSE IF ~can_edit(a, roles, villages, jobs[job_id])
                    THEN <<403, "Keine Berechtigung">>
                    ELSE <<200, "">>
        code     == answer[1]
    IN  /\ jobs' = IF code = 200
                   THEN [i \in (DOMAIN jobs) \ {job_id} |-> jobs[i]]
                   ELSE jobs
        /\ response' = Respond("delete_job", code, answer[2], 0)
        /\ UNCHANGED <<jobs_seq, arbeitseinsaetze, ae_seq, listing, conn, machines, machines_seq, stored_roles, resolved>>

\* approve_jobs / reject_jobs: the per-row permission decision
can_approve(roles, villages, job) ==
    IF in_roles("admin", roles) THEN TRUE
    ELSE in_roles("ortsvorsteher", roles) /\ in_villages(user[job.user_id].ortsteil, villages)

\* approve_update without its WHERE clause
approve_update_every_row(tbl, a, job_id) ==
    [id \in DOMAIN tbl |-> [tbl[id] EXCEPT !.status = "freigegeben",
                                          !.checked_by = a,
                                          !.checked_time = "CURRENT_TIMESTAMP"]]

\* approve_jobs: UPDATE jobs SET status = 'freigegeben', checked_by, checked_time WHERE id = ?
approve_update(tbl, a, job_id) ==
    IF found(tbl, job_id)
    THEN [tbl EXCEPT ![job_id] = [@ EXCEPT !.status = "freigegeben",
                                           !.checked_by = a,
                                           !.checked_time = "CURRENT_TIMESTAMP"]]
    ELSE tbl

\* reject_jobs: UPDATE jobs SET status = 'abgelehnt', rejection_reason, checked_by, checked_time
reject_update(tbl, a, job_id, rejection_reason) ==
    IF found(tbl, job_id)
    THEN [tbl EXCEPT ![job_id] = [@ EXCEPT !.status = "abgelehnt",
                                           !.rejection_reason = rejection_reason,
                                           !.checked_by = a,
                                           !.checked_time = "CURRENT_TIMESTAMP"]]
    ELSE tbl

\* the condition guarding the UPDATE of one loop iteration, on the row read
applies(roles, villages, job) ==
    can_approve(roles, villages, job) /\ job.status = "erfasst"

\* the for-loop of approve_jobs (reason = None) and reject_jobs, on one connection:
\* every SELECT sees the UPDATEs of the earlier iterations
RECURSIVE batch_loop(_, _, _, _, _, _)
batch_loop(kind, tbl, a, job_ids, reason, count) ==
    IF job_ids = <<>> THEN [tbl |-> tbl, count |-> count, raised |-> FALSE]
    ELSE LET job_id   == Head(job_ids)
             roles    == get_user_roles(user[a])
             villages == get_user_villages(user[a])
         IN  IF ~found(tbl, job_id)
             THEN batch_loop(kind, tbl, a, Tail(job_ids), reason, count)
             ELSE IF ortsteil_raises(roles, tbl[job_id])
             THEN [tbl |-> tbl, count |-> count, raised |-> TRUE]
             ELSE IF applies(roles, villages, tbl[job_id])
             THEN batch_loop(kind,
                             IF kind = "approve" THEN approve_update(tbl, a, job_id)
                             ELSE reject_update(tbl, a, job_id, reason),
                             a, Tail(job_ids), reason, count + 1)
             ELSE batch_loop(kind, tbl, a, Tail(job_ids), reason, count)

\* routes_jobs.approve_jobs, one request run to completion
approve_jobs(a, job_ids) ==
    LET roles == get_user_roles(user[a])
        done  == batch_loop("approve", jobs, a, job_ids, None, 0)
    IN  /\ IF ~privileged(roles)
           THEN /\ response' = Respond("approve_jobs", 403, "Keine Berechtigung", 0)
                /\ UNCHANGED jobs
           ELSE IF job_ids = <<>>
           THEN /\ response' = Respond("approve_jobs", 400, "Keine Jobs ausgewaehlt", 0)
                /\ UNCHANGED jobs
           ELSE IF done.raised
           THEN /\ response' = Respond("approve_jobs", 400, "exception", 0)
                /\ UNCHANGED jobs
           ELSE /\ response' = Respond("approve_jobs", 200, "freigegeben", done.count)
                /\ jobs' = done.tbl
        /\ UNCHANGED <<jobs_seq, arbeitseinsaetze, ae_seq, listing, conn, machines, machines_seq, stored_roles, resolved>>

\* routes_jobs.reject_jobs, one request run to completion
reject_jobs(a, job_ids, data) ==
    LET roles == get_user_roles(user[a])
        rejection_reason == get(data, "rejection_reason", "")
        done  == batch_loop("reject", jobs, a, job_ids, rejection_reason, 0)
    IN  /\ IF ~privileged(roles)
           THEN /\ response' = Respond("reject_jobs", 403, "Keine Berechtigung", 0)
                /\ UNCHANGED jobs
           ELSE IF job_ids = <<>>
           THEN /\ response' = Respond("reject_jobs", 400, "Keine Jobs ausgewaehlt", 0)
                /\ UNCHANGED jobs
           ELSE IF done.raised
           THEN /\ response' = Respond("reject_jobs", 400, "exception", 0)
                /\ UNCHANGED jobs
           ELSE /\ response' = Respond("reject_jobs", 200, "abgelehnt", done.count)
                /\ jobs' = done.tbl
        /\ UNCHANGED <<jobs_seq, arbeitseinsaetze, ae_seq, listing, conn, machines, machines_seq, stored_roles, resolved>>

(***************************************************************************)
(* Table arbeitseinsaetze and the form routes of app.py                    *)
(***************************************************************************)

\* the INSERT of einsatz_neu; the other columns take the defaults of the schema
new_einsatz(a, datum, arbeitszeit, bemerkung) ==
    [user_id                 |-> a,
     datum                   |-> datum,
     arbeitsstunden          |-> float(arbeitszeit),
     taetigkeitsbeschreibung |-> bemerkung,
     machine_used            |-> None,
     status                  |-> "erfasst",
     rejection_reason        |-> None,
     checked_by              |-> NULL,
     checked_time            |-> None]

\* one line of the form of einsatz_neu is stored
line_stored(line) ==
    /\ line.datum # "" /\ line.arbeitszeit # "" /\ line.bemerkung # ""
    /\ can_float(line.arbeitszeit)

\* the for-loop of einsatz_neu over the lines of the form
RECURSIVE neu_loop(_, _, _, _, _)
neu_loop(tbl, seq, a, lines, erfolgreich) ==
    IF lines = <<>> THEN [tbl |-> tbl, seq |-> seq, erfolgreich |-> erfolgreich]
    ELSE IF line_stored(Head(lines))
    THEN neu_loop(tbl @@ ((seq + 1) :> new_einsatz(a, Head(lines).datum,
                                                   Head(lines).arbeitszeit,
                                                   Head(lines).bemerkung)),
                  seq + 1, a, Tail(lines), erfolgreich + 1)
    ELSE neu_loop(tbl, seq, a, Tail(lines), erfolgreich)

\* app.einsatz_neu (POST)
einsatz_neu(a, lines) ==
    LET done == neu_loop(arbeitseinsaetze, ae_seq, a, lines, 0)
    IN  /\ arbeitseinsaetze' = done.tbl
        /\ ae_seq' = done.seq
        /\ response' = Respond("einsatz_neu", 302, "erfasst", done.erfolgreich)
        /\ UNCHANGED <<jobs, jobs_seq, listing, conn, machines, machines_seq, stored_roles, resolved>>

\* app.rolle_required(*allowed_roles): some token of the role string is allowed
has_permission(text, allowed_roles) ==
    LET user_roles == IF text # <<>> THEN split(text) ELSE <<>>
    IN  \E i \in DOMAIN user_roles : \E r \in allowed_roles : strip(user_roles[i]) = <<r>>

rolle_required(a, allowed_roles) == has_permission(user[a].roles, allowed_roles)

(***************************************************************************)
(* The role resolvers asked about one stored role text                     *)
(***************************************************************************)
NoAnswer == [op |-> "none", roles |-> <<>>, role |-> "", allowed |-> {}, answer |-> FALSE]

\* routes_jobs.get_user_roles(user) on the user row that holds the text
get_user_roles_call ==
    /\ resolved' = [op |-> "get_user_roles", roles |-> get_user_roles([roles |-> stored_roles]),
                    role |-> "", allowed |-> {}, answer |-> FALSE]
    /\ UNCHANGED <<jobs, jobs_seq, arbeitseinsaetze, ae_seq, response, listing, conn,
                   machines, machines_seq, stored_roles>>

\* app.has_role(user_roles, role) on the text
has_role_call(role) ==
    /\ resolved' = [op |-> "has_role", roles |-> <<>>, role |-> role, allowed |-> {},
                    answer |-> has_role(stored_roles, role)]
    /\ UNCHANGED <<jobs, jobs_seq, arbeitseinsaetze, ae_seq, response, listing, conn,
                   machines, machines_seq, stored_roles>>

\* the permission test of app.rolle_required(*allowed_roles) on the text
rolle_required_call(allowed_roles) ==
    /\ resolved' = [op |-> "rolle_required", roles |-> <<>>, role |-> "",
                    allowed |-> allowed_roles,
                    answer |-> has_permission(stored_roles, allowed_roles)]
    /\ UNCHANGED <<jobs, jobs_seq, arbeitseinsaetze, ae_seq, response, listing, conn,
                   machines, machines_seq, stored_roles>>

Reviewers == {"ortsvorsteher", "admin", "verwaltung"}

\* UPDATE arbeitseinsaetze SET status = ?, checked_time = CURRENT_TIMESTAMP, checked_by = ?
\* WHERE id = ?
freigabe_update(tbl, a, einsatz_id, status) ==
    IF found(tbl, einsatz_id)
    THEN [tbl EXCEPT ![einsatz_id] = [@ EXCEPT !.status = status,
                                               !.checked_time = "CURRENT_TIMESTAMP",
                                               !.checked_by = a]]
    ELSE tbl

\* UPDATE arbeitseinsaetze SET status = 'abgelehnt', rejection_reason = ? WHERE id = ?
ablehnung_update(tbl, einsatz_id, grund) ==
    IF found(tbl, einsatz_id)
    THEN [tbl EXCEPT ![einsatz_id] = [@ EXCEPT !.status = "abgelehnt",
                                               !.rejection_reason = grund]]
    ELSE tbl

\* the status an approval by this user writes (einsatz_freigeben)
freigabe_status(a) ==
    IF has_role(user[a].roles, "ortsvorsteher") THEN "freigegeben_ov"
    ELSE IF has_role(user[a].roles, "admin") \/ has_role(user[a].roles, "verwaltung")
    THEN "abgerechnet"
    ELSE None

\* app.einsatz_freigeben
einsatz_freigeben(a, einsatz_id) ==
    /\ IF ~rolle_required(a, Reviewers)
       THEN /\ response' = Respond("einsatz_freigeben", 302, "Keine Berechtigung", 0)
            /\ UNCHANGED arbeitseinsaetze
       ELSE IF freigabe_status(a) = None
       THEN /\ response' = Respond("einsatz_freigeben", 302, "", 0)
            /\ UNCHANGED arbeitseinsaetze
       ELSE /\ response' = Respond("einsatz_freigeben", 302, freigabe_status(a), 0)
            /\ arbeitseinsaetze' =
                   freigabe_update(arbeitseinsaetze, a, einsatz_id, freigabe_status(a))
    /\ UNCHANGED <<jobs, jobs_seq, ae_seq, listing, conn, machines, machines_seq, stored_roles, resolved>>

\* app.einsatz_ablehnen
einsatz_ablehnen(a, einsatz_id, form) ==
    LET grund == get(form, "ablehnungsgrund", "")
    IN  /\ IF ~rolle_required(a, Reviewers)
           THEN /\ response' = Respond("einsatz_ablehnen", 302, "Keine Berechtigung", 0)
                /\ UNCHANGED arbeitseinsaetze
           ELSE /\ response' = Respond("einsatz_ablehnen", 302, "abgelehnt", 0)
                /\ arbeitseinsaetze' = ablehnung_update(arbeitseinsaetze, einsatz_id, grund)
        /\ UNCHANGED <<jobs, jobs_seq, ae_seq, listing, conn, machines, machines_seq, stored_roles, resolved>>

\* int(text) of one id of a form: blanks around the digits are accepted
can_int_tok(t) == Len(strip(t)) = 1 /\ can_int(strip(t)[1])
int_tok(t) == int(strip(t)[1])

\* the status a batch approval by this user writes (einsaetze_massenfreigabe)
massenfreigabe_status(a) ==
    IF has_role(user[a].roles, "ortsvorsteher") THEN "freigegeben_ov" ELSE "abgerechnet"

\* the for-loop of einsaetze_massenfreigabe: an id that is no number is passed over
RECURSIVE massenfreigabe_loop(_, _, _, _)
massenfreigabe_loop(tbl, a, einsatz_ids, erfolg) ==
    IF einsatz_ids = <<>> THEN [tbl |-> tbl, erfolg |-> erfolg]
    ELSE IF can_int_tok(Head(einsatz_ids))
    THEN massenfreigabe_loop(
             freigabe_update(tbl, a, int_tok(Head(einsatz_ids)), massenfreigabe_status(a)),
             a, Tail(einsatz_ids), erfolg + 1)
    ELSE massenfreigabe_loop(tbl, a, Tail(einsatz_ids), erfolg)

\* app.einsaetze_massenfreigabe; einsatz_ids is the list of the form's einsatz_ids[]
einsaetze_massenfreigabe(a, einsatz_ids) ==
    LET done == massenfreigabe_loop(arbeitseinsaetze, a, einsatz_ids, 0)
    IN  /\ IF ~rolle_required(a, Reviewers)
           THEN /\ response' = Respond("einsaetze_massenfreigabe", 302, "Keine Berechtigung", 0)
                /\ UNCHANGED arbeitseinsaetze
           ELSE IF einsatz_ids = <<>>
           THEN /\ response' = Respond("einsaetze_massenfreigabe", 302,
                                       "Keine Einsaetze ausgewaehlt", 0)
                /\ UNCHANGED arbeitseinsaetze
           ELSE /\ response' = Respond("einsaetze_massenfreigabe", 302, "freigegeben", done.erfolg)
                /\ arbeitseinsaetze' = done.tbl
        /\ UNCHANGED <<jobs, jobs_seq, ae_seq, listing, conn, machines, machines_seq, stored_roles, resolved>>

\* the for-loop of einsaetze_massenablehnung
RECURSIVE massenablehnung_loop(_, _, _, _)
massenablehnung_loop(tbl, einsatz_ids, ablehnungsgrund, erfolg) ==
    IF einsatz_ids = <<>> THEN [tbl |-> tbl, erfolg |-> erfolg]
    ELSE IF can_int_tok(Head(einsatz_ids))
    THEN massenablehnung_loop(
             ablehnung_update(tbl, int_tok(Head(einsatz_ids)), ablehnungsgrund),
             Tail(einsatz_ids), ablehnungsgrund, erfolg + 1)
    ELSE massenablehnung_loop(tbl, Tail(einsatz_ids), ablehnungsgrund, erfolg)

\* app.einsaetze_massenablehnung; the form carries the ids as one comma-joined text
einsaetze_massenablehnung(a, form) ==
    LET einsatz_ids_str == get(form, "einsatz_ids", <<>>)
        ablehnungsgrund == get(form, "ablehnungsgrund", "")
        done == massenablehnung_loop(arbeitseinsaetze, split(einsatz_ids_str),
                                     ablehnungsgrund, 0)
    IN  /\ IF ~rolle_required(a, Reviewers)
           THEN /\ response' = Respond("einsaetze_massenablehnung", 302, "Keine Berechtigung", 0)
                /\ UNCHANGED arbeitseinsaetze
           ELSE IF einsatz_ids_str = <<>> \/ ablehnungsgrund = ""
           THEN /\ response' = Respond("einsaetze_massenablehnung", 302,
                                       "Keine Einsaetze oder kein Ablehnungsgrund", 0)
                /\ UNCHANGED arbeitseinsaetze
           ELSE /\ response' = Respond("einsaetze_massenablehnung", 302, "abgelehnt", done.erfolg)
                /\ arbeitseinsaetze' = done.tbl
        /\ UNCHANGED <<jobs, jobs_seq, ae_seq, listing, conn, machines, machines_seq, stored_roles, resolved>>

(***************************************************************************)
(* approve_jobs and reject_jobs in flight together.  Each request has its  *)
(* own sqlite connection (get_db).  A SELECT outside a transaction reads   *)
(* the committed table; the first UPDATE opens the transaction and takes   *)
(* the write lock of the database file, which one connection holds at a    *)
(* time; a connection that waits for the lock longer than the timeout of   *)
(* sqlite3.connect gets an exception; commit publishes the writes.         *)
(***************************************************************************)
Conns == 1..MaxConns

\* txn, job and data hold at most one value: the uncommitted table, the row
\* read, the payload of update_job / delete_job
NoTxn == <<>>
NoJob == <<>>
NoData == <<>>

Idle ==
    [pc |-> "idle", kind |-> "", actor |-> NULL, job_ids |-> <<>>, reason |-> "",
     i |-> 1, job |-> NoJob, count |-> 0, txn |-> NoTxn, code |-> 0, data |-> NoData]

\* what the connection reads: its own uncommitted writes, else the committed table
view(c) == IF conn[c].txn # NoTxn THEN conn[c].txn[1] ELSE jobs

lock_free(c) == \A d \in Conns \ {c} : conn[d].txn = NoTxn

\* approve_jobs / reject_jobs up to the loop: the role check and the empty list
batch_begin(c, kind, a, job_ids, data) ==
    LET roles == get_user_roles(user[a])
        req   == [Idle EXCEPT !.kind = kind, !.actor = a, !.job_ids = job_ids,
                              !.reason = get(data, "rejection_reason", "")]
    IN  /\ conn[c].pc = "idle"
        /\ conn' = [conn EXCEPT ![c] =
               IF ~privileged(roles) THEN [req EXCEPT !.pc = "done", !.code = 403]
               ELSE IF job_ids = <<>> THEN [req EXCEPT !.pc = "done", !.code = 400]
               ELSE [req EXCEPT !.pc = "select"]]
        /\ UNCHANGED <<jobs, jobs_seq, arbeitseinsaetze, ae_seq, response, listing, machines, machines_seq, stored_roles, resolved>>

\* one iteration up to its UPDATE: the two SELECTs and the decision on the row read
batch_select(c) ==
    LET r        == conn[c]
        roles    == get_user_roles(user[r.actor])
        villages == get_user_villages(user[r.actor])
        job_id   == r.job_ids[r.i]
    IN  /\ r.pc = "select"
        /\ r.i <= Len(r.job_ids)
        /\ conn' = [conn EXCEPT ![c] =
               IF ~found(view(c), job_id) THEN [r EXCEPT !.i = r.i + 1]
               ELSE IF ortsteil_raises(roles, view(c)[job_id])
               THEN [r EXCEPT !.pc = "done", !.code = 400, !.txn = NoTxn]
               ELSE IF applies(roles, villages, view(c)[job_id])
               THEN [r EXCEPT !.pc = "update", !.job = <<view(c)[job_id]>>]
               ELSE [r EXCEPT !.i = r.i + 1]]
        /\ UNCHANGED <<jobs, jobs_seq, arbeitseinsaetze, ae_seq, response, listing, machines, machines_seq, stored_roles, resolved>>

\* the UPDATE of the iteration, once the write lock is had
batch_update(c) ==
    LET r      == conn[c]
        job_id == r.job_ids[r.i]
    IN  /\ r.pc = "update"
        /\ lock_free(c)
        /\ conn' = [conn EXCEPT ![c] =
               [r EXCEPT !.pc = "select", !.i = r.i + 1, !.job = NoJob,
                         !.count = r.count + 1,
                         !.txn = IF r.kind = "approve"
                                 THEN <<approve_update(view(c), r.actor, job_id)>>
                                 ELSE <<reject_update(view(c), r.actor, job_id, r.reason)>>]]
        /\ UNCHANGED <<jobs, jobs_seq, arbeitseinsaetze, ae_seq, response, listing, machines, machines_seq, stored_roles, resolved>>

\* the UPDATE waits for the lock past the timeout: except-branch, rollback, 400
batch_locked(c) ==
    /\ conn[c].pc = "update"
    /\ ~lock_free(c)
    /\ conn' = [conn EXCEPT ![c] = [@ EXCEPT !.pc = "done", !.code = 400, !.txn = NoTxn]]
    /\ UNCHANGED <<jobs, jobs_seq, arbeitseinsaetze, ae_seq, response, listing, machines, machines_seq, stored_roles, resolved>>

\* db.commit() after the loop, and the answer with the count
batch_commit(c) ==
    /\ conn[c].pc = "select"
    /\ conn[c].i > Len(conn[c].job_ids)
    /\ jobs' = view(c)
    /\ conn' = [conn EXCEPT ![c] = [@ EXCEPT !.pc = "done", !.code = 200, !.txn = NoTxn]]
    /\ UNCHANGED <<jobs_seq, arbeitseinsaetze, ae_seq, response, listing, machines, machines_seq, stored_roles, resolved>>

\* update_job / delete_job up to the write: the SELECT of the row, the
\* permission decision on the row read, and the statement built from the payload
edit_begin(c, kind, a, data) ==
    LET job_id   == job_id_of(data)
        roles    == get_user_roles(user[a])
        villages == get_user_villages(user[a])
        code     == IF ~found(jobs, job_id) THEN 404
                    ELSE IF ortsteil_raises(roles, jobs[job_id]) THEN 400
                    ELSE IF ~can_edit(a, roles, villages, jobs[job_id]) THEN 403
                    ELSE IF kind = "update" /\ patch_raises(roles, data) THEN 400
                    ELSE IF kind = "update" /\ no_updates(roles, data) THEN 400
                    ELSE 0
        req      == [Idle EXCEPT !.kind = kind, !.actor = a, !.data = <<data>>]
    IN  /\ conn[c].pc = "idle"
        /\ conn' = [conn EXCEPT ![c] =
               IF code # 0 THEN [req EXCEPT !.pc = "done", !.code = code]
               ELSE [req EXCEPT !.pc = "write", !.job = <<jobs[job_id]>>]]
        /\ UNCHANGED <<jobs, jobs_seq, arbeitseinsaetze, ae_seq, response, listing, machines, machines_seq, stored_roles, resolved>>

\* UPDATE jobs SET ... WHERE id = ? / DELETE FROM jobs WHERE id = ?, once the
\* write lock is had: the statement acts on the row as it is now
edit_write(c) ==
    LET r      == conn[c]
        data   == r.data[1]
        job_id == job_id_of(data)
        roles  == get_user_roles(user[r.actor])
    IN  /\ r.pc = "write"
        /\ lock_free(c)
        /\ conn' = [conn EXCEPT ![c] =
               [r EXCEPT !.pc = "commit",
                         !.txn = IF ~found(jobs, job_id) THEN <<jobs>>
                                 ELSE IF r.kind = "update"
                                 THEN <<[jobs EXCEPT ![job_id] =
                                            apply_patch(r.actor, roles, data, jobs[job_id])]>>
                                 ELSE <<[i \in (DOMAIN jobs) \ {job_id} |-> jobs[i]]>>]]
        /\ UNCHANGED <<jobs, jobs_seq, arbeitseinsaetze, ae_seq, response, listing, machines, machines_seq, stored_roles, resolved>>

\* the statement waits for the lock past the timeout: except-branch, rollback, 400
edit_locked(c) ==
    /\ conn[c].pc = "write"
    /\ ~lock_free(c)
    /\ conn' = [conn EXCEPT ![c] = [@ EXCEPT !.pc = "done", !.code = 400, !.txn = NoTxn]]
    /\ UNCHANGED <<jobs, jobs_seq, arbeitseinsaetze, ae_seq, response, listing, machines, machines_seq, stored_roles, resolved>>

\* db.commit() of update_job / delete_job, and the answer
edit_commit(c) ==
    /\ conn[c].pc = "commit"
    /\ jobs' = conn[c].txn[1]
    /\ conn' = [conn EXCEPT ![c] = [@ EXCEPT !.pc = "done", !.code = 200, !.txn = NoTxn]]
    /\ UNCHANGED <<jobs_seq, arbeitseinsaetze, ae_seq, response, listing, machines, machines_seq, stored_roles, resolved>>

(***************************************************************************)
(* The list views.  A date is stored and compared as ISO text; DateRank    *)
(* gives the order of the texts used.  An id sent as text matches an       *)
(* integer column when the text is that number.                            *)
(***************************************************************************)
DateRank == ("2024-03-01" :> 1) @@ ("2024-03-02" :> 2)

\* a.user_id = ?  with the text of a request parameter
id_matches(column, text) == can_int(text) /\ int(text) = column

\* column aktiv of table user: user 2 has been deactivated
user_aktiv == [u \in DOMAIN user |-> IF u = 2 THEN 0 ELSE 1]

\* roles LIKE '%wegewart%': the text holds the letters wegewart somewhere; of the
\* words the role texts are made of, only the word wegewart does
like_wegewart(text) == \E i \in DOMAIN text : text[i] = "wegewart"

\* routes_jobs.get_available_wegewarten: the ids of the users returned
get_available_wegewarten(a) ==
    LET roles    == get_user_roles(user[a])
        villages == get_user_villages(user[a])
    IN  IF in_roles("admin", roles)
        THEN {u \in DOMAIN user : like_wegewart(user[u].roles) /\ user_aktiv[u] = 1}
        ELSE IF in_roles("ortsvorsteher", roles)
        THEN {u \in DOMAIN user : /\ like_wegewart(user[u].roles)
                                  /\ user_aktiv[u] = 1
                                  /\ in_villages(user[u].ortsteil, villages)}
        ELSE {a}

\* app.einsaetze_liste: the users loaded for the filter dropdown
wegewarte(a) ==
    IF \/ has_role(user[a].roles, "ortsvorsteher")
       \/ has_role(user[a].roles, "admin")
       \/ has_role(user[a].roles, "verwaltung")
    THEN IF has_role(user[a].roles, "ortsvorsteher")
         THEN {u \in DOMAIN user : /\ like_wegewart(user[u].roles)
                                   /\ user[u].ortsteil = user[a].ortsteil
                                   /\ user_aktiv[u] = 1}
         ELSE {u \in DOMAIN user : like_wegewart(user[u].roles) /\ user_aktiv[u] = 1}
    ELSE {}

\* jobs_rows with the branch of the plain worker lost: no restriction to own rows
jobs_rows_no_own_branch(tbl, a, args) ==
    LET roles    == get_user_roles(user[a])
        villages == get_user_villages(user[a])
    IN  {id \in DOMAIN tbl :
            /\ user_found(tbl[id].user_id)
            /\ IF in_roles("admin", roles) THEN TRUE
               ELSE IF in_roles("ortsvorsteher", roles)
               THEN in_villages(user[tbl[id].user_id].ortsteil, villages)
               ELSE TRUE
            /\ (args.wegewart_filter # "" /\ privileged(roles))
                   => id_matches(tbl[id].user_id, args.wegewart_filter)
            /\ args.date_from # "" => DateRank[tbl[id].datum] >= DateRank[args.date_from]
            /\ args.date_to # "" => DateRank[tbl[id].datum] <= DateRank[args.date_to]
            /\ args.village_filter # ""
                   => user[tbl[id].user_id].ortsteil = args.village_filter}

\* routes_jobs.jobs: the ids of the rows the query returns
\* (JOIN user: a row whose owner is no user row is not returned)
jobs_rows(tbl, a, args) ==
    LET roles    == get_user_roles(user[a])
        villages == get_user_villages(user[a])
    IN  {id \in DOMAIN tbl :
            /\ user_found(tbl[id].user_id)
            /\ IF in_roles("admin", roles) THEN TRUE
               ELSE IF in_roles("ortsvorsteher", roles)
               THEN in_villages(user[tbl[id].user_id].ortsteil, villages)
               ELSE tbl[id].user_id = a
            /\ (args.wegewart_filter # "" /\ privileged(roles))
                   => id_matches(tbl[id].user_id, args.wegewart_filter)
            /\ args.date_from # "" => DateRank[tbl[id].datum] >= DateRank[args.date_from]
            /\ args.date_to # "" => DateRank[tbl[id].datum] <= DateRank[args.date_to]
            /\ args.village_filter # ""
                   => user[tbl[id].user_id].ortsteil = args.village_filter}

\* routes_jobs.jobs
jobs_view(a, args) ==
    /\ listing = NoListing
    /\ listing' = [op |-> "jobs", actor |-> a, rows |-> jobs_rows(jobs, a, args),
                   wegewarte |-> get_available_wegewarten(a)]
    /\ UNCHANGED <<jobs, jobs_seq, arbeitseinsaetze, ae_seq, response, conn, machines, machines_seq, stored_roles, resolved>>

\* einsaetze_rows with the district condition of the ortsvorsteher branch lost
einsaetze_rows_no_district(tbl, a, args) ==
    {id \in DOMAIN tbl :
        /\ user_found(tbl[id].user_id)
        /\ IF has_role(user[a].roles, "wegewart") THEN tbl[id].user_id = a
           ELSE TRUE
        /\ args.von # "" => DateRank[tbl[id].datum] >= DateRank[args.von]
        /\ args.bis # "" => DateRank[tbl[id].datum] <= DateRank[args.bis]
        /\ args.wegewart # "" => id_matches(tbl[id].user_id, args.wegewart)
        /\ args.status # "" => tbl[id].status = args.status}

\* app.einsaetze_liste: the ids of the rows the query returns
einsaetze_rows(tbl, a, args) ==
    {id \in DOMAIN tbl :
        /\ user_found(tbl[id].user_id)
        /\ IF has_role(user[a].roles, "wegewart") THEN tbl[id].user_id = a
           ELSE IF has_role(user[a].roles, "ortsvorsteher")
           THEN user[tbl[id].user_id].ortsteil = user[a].ortsteil
           ELSE TRUE
        /\ args.von # "" => DateRank[tbl[id].datum] >= DateRank[args.von]
        /\ args.bis # "" => DateRank[tbl[id].datum] <= DateRank[args.bis]
        /\ args.wegewart # "" => id_matches(tbl[id].user_id, args.wegewart)
        /\ args.status # "" => tbl[id].status = args.status}

\* app.einsaetze_liste
einsaetze_liste(a, args) ==
    /\ listing = NoListing
    /\ listing' = [op |-> "einsaetze_liste", actor |-> a,
                   rows |-> einsaetze_rows(arbeitseinsaetze, a, args),
                   wegewarte |-> wegewarte(a)]
    /\ UNCHANGED <<jobs, jobs_seq, arbeitseinsaetze, ae_seq, response, conn, machines, machines_seq, stored_roles, resolved>>

(***************************************************************************)
(* The requests explored                                                   *)
(***************************************************************************)
BasePayload ==
    [datum |-> "2024-03-01", arbeitsstunden |-> "4.5", taetigkeitsbeschreibung |-> "Wegpflege"]

CreatePayloads ==
    {BasePayload}
    \cup {BasePayload @@ ("user_id" :> u) : u \in {"1", "2"}}
    \cup {BasePayload @@ ("status" :> "freigegeben")}
    \cup {[datum |-> "2024-03-01", arbeitsstunden |-> "viel", taetigkeitsbeschreibung |-> "Wegpflege"]}
    \cup {[datum |-> "2024-03-01", arbeitsstunden |-> "-1", taetigkeitsbeschreibung |-> "Wegpflege"]}
    \cup {[datum |-> "2024-03-01", arbeitsstunden |-> "4.5", taetigkeitsbeschreibung |-> ""]}
    \cup {[datum |-> "2024-03-01", arbeitsstunden |-> "4.5"]}

UpdatePatches ==
    {("job_id" :> j) : j \in {"1", "2"}}
    \cup {("job_id" :> j) @@ ("status" :> s) :
              j \in {"1", "2"}, s \in {"erfasst", "freigegeben", "abgelehnt", "abgerechnet"}}
    \cup {("job_id" :> j) @@ ("taetigkeitsbeschreibung" :> "Hecke") : j \in {"1", "2"}}

DeleteRequests == {("job_id" :> j) : j \in {"1", "2"}}

\* id lists of a batch request, repeated ids included
IdLists == UNION {[1..n -> Ids] : n \in 0..MaxIds}

RejectPayloads == {<<>>, ("rejection_reason" :> ""), ("rejection_reason" :> "unklar")}

Init ==
    /\ jobs = <<>>
    /\ jobs_seq = 0
    /\ arbeitseinsaetze = <<>>
    /\ ae_seq = 0
    /\ response = Respond("none", 0, "", 0)
    /\ listing = NoListing
    /\ conn = <<>>
    /\ machines = <<>>
    /\ machines_seq = 0
    /\ stored_roles = <<>>
    /\ resolved = NoAnswer

\* the JSON blueprint, every request run to completion before the next
NextJobs ==
    \/ \E a \in Actors, data \in CreatePayloads : jobs_seq < MaxJobs /\ create_job(a, data)
    \/ \E a \in Actors, data \in UpdatePatches : update_job(a, data)
    \/ \E a \in Actors, data \in DeleteRequests : delete_job(a, data)
    \/ \E a \in Actors, job_ids \in IdLists : approve_jobs(a, job_ids)
    \/ \E a \in Actors, job_ids \in IdLists, data \in RejectPayloads : reject_jobs(a, job_ids, data)

SpecJobs == Init /\ [][NextJobs]_vars

\* the form routes, every request run to completion before the next
FormLines ==
    {[datum |-> d, arbeitszeit |-> z, bemerkung |-> b] :
        d \in {"2024-03-01"}, z \in {"4.5", "viel"}, b \in {"Wegpflege", ""}}

Forms == UNION {[1..n -> FormLines] : n \in 0..1}

IdTexts == {<<"1">>, <<" ", "2">>, <<"x">>}

IdTextLists == UNION {[1..n -> IdTexts] : n \in 0..MaxIds}

AblehnenForms == {<<>>, ("ablehnungsgrund" :> ""), ("ablehnungsgrund" :> "unklar")}

MassenablehnungForms ==
    {("einsatz_ids" :> <<"1">>),
     ("einsatz_ids" :> <<"1">>) @@ ("ablehnungsgrund" :> ""),
     ("einsatz_ids" :> <<"1", ",", "2">>) @@ ("ablehnungsgrund" :> "unklar"),
     ("einsatz_ids" :> <<"1", ",", "x">>) @@ ("ablehnungsgrund" :> "unklar"),
     ("ablehnungsgrund" :> "unklar")}

NextApp ==
    \/ \E a \in Actors, lines \in Forms :
           ae_seq + Len(lines) <= MaxEinsaetze /\ einsatz_neu(a, lines)
    \/ \E a \in Actors, id \in 1..MaxEinsaetze : einsatz_freigeben(a, id)
    \/ \E a \in Actors, id \in 1..MaxEinsaetze, form \in AblehnenForms :
           einsatz_ablehnen(a, id, form)
    \/ \E a \in Actors, ids \in IdTextLists : einsaetze_massenfreigabe(a, ids)
    \/ \E a \in Actors, form \in MassenablehnungForms : einsaetze_massenablehnung(a, form)

SpecApp == Init /\ [][NextApp]_vars

\* the batch requests alone, on tables of more than one row
Creators == {1, 2}

BatchActors == {1, 3, 4, 5}

BatchIdLists == UNION {[1..n -> 1..MaxBatchRows] : n \in 0..MaxIds}

BatchRejectPayloads == {("rejection_reason" :> ""), ("rejection_reason" :> "unklar")}

NextJobsBatch ==
    \/ \E a \in Creators : jobs_seq < MaxBatchRows /\ create_job(a, BasePayload)
    \/ \E a \in BatchActors, job_ids \in BatchIdLists : approve_jobs(a, job_ids)
    \/ \E a \in BatchActors, job_ids \in BatchIdLists, data \in BatchRejectPayloads :
           reject_jobs(a, job_ids, data)

SpecJobsBatch == Init /\ [][NextJobsBatch]_vars

BatchIdTextLists == UNION {[1..n -> {<<"1">>, <<"2">>}] : n \in 0..MaxIds}

NextAppBatch ==
    \/ \E a \in Creators :
           /\ ae_seq < MaxBatchRows
           /\ einsatz_neu(a, <<[datum |-> "2024-03-01", arbeitszeit |-> "4.5",
                                bemerkung |-> "Wegpflege"]>>)
    \/ \E a \in BatchActors, ids \in BatchIdTextLists : einsaetze_massenfreigabe(a, ids)
    \/ \E a \in BatchActors, form \in MassenablehnungForms : einsaetze_massenablehnung(a, form)

SpecAppBatch == Init /\ [][NextAppBatch]_vars

\* two batch requests in flight on one row created before them
RaceActors == {1, 3, 4, 5}

RaceIdLists == UNION {[1..n -> 1..MaxRaceRows] : n \in 1..MaxIds}

InitRace ==
    /\ jobs = <<>>
    /\ jobs_seq = 0
    /\ arbeitseinsaetze = <<>>
    /\ ae_seq = 0
    /\ response = Respond("none", 0, "", 0)
    /\ listing = NoListing
    /\ conn = [c \in Conns |-> Idle]
    /\ machines = <<>>
    /\ machines_seq = 0
    /\ stored_roles = <<>>
    /\ resolved = NoAnswer

NextRace ==
    \/ \E a \in Creators :
           /\ \A c \in Conns : conn[c].pc = "idle"
           /\ jobs_seq < MaxRaceRows
           /\ create_job(a, BasePayload)
    \/ \E c \in Conns, a \in RaceActors, job_ids \in RaceIdLists :
           /\ \A k \in DOMAIN job_ids : found(jobs, job_ids[k])
           /\ batch_begin(c, "approve", a, job_ids, <<>>)
    \/ \E c \in Conns, a \in RaceActors, job_ids \in RaceIdLists, data \in BatchRejectPayloads :
           /\ \A k \in DOMAIN job_ids : found(jobs, job_ids[k])
           /\ batch_begin(c, "reject", a, job_ids, data)
    \/ \E c \in Conns : batch_select(c)
    \/ \E c \in Conns : batch_update(c)
    \/ \E c \in Conns : batch_locked(c)
    \/ \E c \in Conns : batch_commit(c)

SpecRace == InitRace /\ [][NextRace]_vars

\* an owner's update_job or delete_job on one connection and approve_jobs on
\* another, their steps interleaved
EditPatches ==
    {("job_id" :> "1") @@ ("taetigkeitsbeschreibung" :> "Hecke"),
     ("job_id" :> "1") @@ ("arbeitsstunden" :> "0") @@ ("status" :> "erfasst"),
     ("job_id" :> "1") @@ ("arbeitsstunden" :> "viel"),
     ("job_id" :> "1"),
     ("job_id" :> "2") @@ ("datum" :> "2024-03-02")}

NextEditRace ==
    \/ \E a \in Creators :
           /\ \A c \in Conns : conn[c].pc = "idle"
           /\ jobs_seq < MaxRaceRows
           /\ create_job(a, BasePayload)
    \/ \E c \in Conns, a \in RaceActors, job_ids \in RaceIdLists :
           /\ \A k \in DOMAIN job_ids : found(jobs, job_ids[k])
           /\ batch_begin(c, "approve", a, job_ids, <<>>)
    \/ \E c \in Conns, a \in Actors, data \in EditPatches :
           edit_begin(c, "update", a, data)
    \/ \E c \in Conns, a \in Actors, data \in DeleteRequests :
           edit_begin(c, "delete", a, data)
    \/ \E c \in Conns : batch_select(c)
    \/ \E c \in Conns : batch_update(c)
    \/ \E c \in Conns : batch_locked(c)
    \/ \E c \in Conns : batch_commit(c)
    \/ \E c \in Conns : edit_write(c)
    \/ \E c \in Conns : edit_locked(c)
    \/ \E c \in Conns : edit_commit(c)

SpecEditRace == InitRace /\ [][NextEditRace]_vars

\* the list views, each explored on the tables a list request can meet
ListRow(owner, datum, status) ==
    [user_id |-> owner, datum |-> datum, arbeitsstunden |-> 45,
     taetigkeitsbeschreibung |-> "Wegpflege", machine_used |-> None, status |-> status,
     rejection_reason |-> None, checked_by |-> NULL, checked_time |-> None]

JobsListRows ==
    {ListRow(o, d, st) : o \in {1, 2, 3, 9}, d \in DOMAIN DateRank, st \in {"erfasst"}}

EinsaetzeListRows ==
    {ListRow(o, d, st) : o \in {1, 2, 3}, d \in {"2024-03-01"},
                         st \in {"erfasst", "freigegeben_ov"}}

Tables(rows) == UNION {[1..n -> rows] : n \in 0..MaxListRows}

JobsArgs ==
    [wegewart_filter : {"", "1", "2"}, date_from : {"", "2024-03-02"},
     date_to : {"", "2024-03-01"}, village_filter : {"", "Krenkingen", "Breitenfeld"}]

EinsaetzeArgs ==
    [von : {"", "2024-03-02"}, bis : {""}, wegewart : {"", "1", "2"},
     status : {"", "erfasst"}]

InitList ==
    /\ \/ jobs \in Tables(JobsListRows) /\ arbeitseinsaetze = <<>>
       \/ jobs = <<>> /\ arbeitseinsaetze \in Tables(EinsaetzeListRows)
    /\ jobs_seq = Len(jobs)
    /\ ae_seq = Len(arbeitseinsaetze)
    /\ response = Respond("none", 0, "", 0)
    /\ listing = NoListing
    /\ conn = <<>>
    /\ machines = <<>>
    /\ machines_seq = 0
    /\ stored_roles = <<>>
    /\ resolved = NoAnswer

NextList ==
    \/ \E a \in Actors, args \in JobsArgs : jobs_view(a, args)
    \/ \E a \in Actors, args \in EinsaetzeArgs : einsaetze_liste(a, args)

SpecList == InitList /\ [][NextList]_vars

(***************************************************************************)
(* The blueprint of src/src/routes/jobs.py: the same routes over a jobs     *)
(* table with other column names.  Its approve and reject handlers are the  *)
(* ones of routes_jobs.py, statement for statement.                         *)
(***************************************************************************)

\* float(data.get(k, 0)) of create_job
float_or_zero(data, k) == IF has(data, k) THEN float(data[k]) ELSE 0

\* the INSERT of routes/jobs.py create_job; columns it does not name are NULL
routes_new_job(user_id, data) ==
    [user_id          |-> user_id,
     date             |-> get(data, "date", None),
     time_start       |-> get(data, "time_start", None),
     time_end         |-> get(data, "time_end", None),
     pause_hours      |-> float_or_zero(data, "pause_hours"),
     work_hours       |-> get(data, "work_hours", None),
     work_comment     |-> data["work_comment"],
     machine_id       |-> get(data, "machine_id", None),
     machine_hours    |-> float_or_zero(data, "machine_hours"),
     status           |-> get(data, "status", "erfasst"),
     rejection_reason |-> None,
     checked_by       |-> NULL,
     checked_time     |-> None]

\* routes/jobs.py create_job
routes_create_job(a, data) ==
    LET roles   == get_user_roles(user[a])
        uid_bad == has(data, "user_id") /\ ~can_int(data["user_id"])
        user_id == IF has(data, "user_id") THEN int(data["user_id"]) ELSE a
        denied  == user_id # a /\ ~privileged(roles)
        raises  == \/ has(data, "pause_hours") /\ ~can_float(data["pause_hours"])
                   \/ ~has(data, "work_comment")
                   \/ has(data, "machine_hours") /\ ~can_float(data["machine_hours"])
    IN  /\ IF uid_bad
           THEN /\ response' = Respond("create_job", 400, "exception", 0)
                /\ UNCHANGED <<jobs, jobs_seq>>
           ELSE IF denied
           THEN /\ response' = Respond("create_job", 403, "Keine Berechtigung", 0)
                /\ UNCHANGED <<jobs, jobs_seq>>
           ELSE IF raises
           THEN /\ response' = Respond("create_job", 400, "exception", 0)
                /\ UNCHANGED <<jobs, jobs_seq>>
           ELSE /\ jobs' = jobs @@ ((jobs_seq + 1) :> routes_new_job(user_id, data))
                /\ jobs_seq' = jobs_seq + 1
                /\ response' = Respond("create_job", 200, "job_id", 0)
        /\ UNCHANGED <<arbeitseinsaetze, ae_seq, listing, conn, machines, machines_seq, stored_roles, resolved>>

\* routes/jobs.py update_job: the permission logic based on status and role
routes_update_denied(a, roles, job) ==
    IF job.status \in {"genehmigt", "abgelehnt"}
    THEN ~in_roles("admin", roles)
    ELSE IF job.user_id # a
    THEN ~privileged(roles)
    ELSE FALSE

\* the fields of update_fields the patch holds
update_fields ==
    {"user_id", "date", "time_start", "time_end", "pause_hours", "work_hours",
     "work_comment", "machine_id", "machine_hours", "status"}

\* routes/jobs.py update_job: the value stored for one field of the patch
column_value(field, value) ==
    IF field \in {"pause_hours", "machine_hours"}
    THEN (IF value = None THEN 0 ELSE float(value))
    ELSE IF field = "user_id" THEN int(value)
    ELSE IF field = "machine_id" THEN (IF value = "" THEN None ELSE value)
    ELSE value

column_raises(data) ==
    \/ \E f \in {"pause_hours", "machine_hours"} :
           has(data, f) /\ data[f] # None /\ ~can_float(data[f])
    \/ has(data, "user_id") /\ ~can_int(data["user_id"])

\* routes/jobs.py update_job: UPDATE jobs SET every field of the patch
routes_apply_patch(data, job) ==
    [c \in DOMAIN job |->
        IF c \in update_fields /\ has(data, c) THEN column_value(c, data[c]) ELSE job[c]]

\* routes/jobs.py update_job
routes_update_job(a, data) ==
    LET job_id == job_id_of(data)
        roles  == get_user_roles(user[a])
        answer == IF ~has(data, "job_id") \/ data["job_id"] = ""
                  THEN <<400, "Missing job ID">>
                  ELSE IF ~found(jobs, job_id) THEN <<404, "Job nicht gefunden">>
                  ELSE IF routes_update_denied(a, roles, jobs[job_id])
                  THEN <<403, "Keine Berechtigung">>
                  ELSE IF column_raises(data) THEN <<400, "exception">>
                  ELSE IF update_fields \cap DOMAIN data = {}
                  THEN <<400, "Keine Felder zum Aktualisieren">>
                  ELSE <<200, "">>
        code   == answer[1]
    IN  /\ jobs' = IF code = 200
                   THEN [jobs EXCEPT ![job_id] = routes_apply_patch(data, jobs[job_id])]
                   ELSE jobs
        /\ response' = Respond("update_job", code, answer[2], 0)
        /\ UNCHANGED <<jobs_seq, arbeitseinsaetze, ae_seq, listing, conn, machines, machines_seq, stored_roles, resolved>>

\* routes/jobs.py delete_job: DELETE FROM jobs WHERE id = ? for whoever is logged in
routes_delete_job(a, data) ==
    LET job_id == job_id_of(data)
    IN  /\ jobs' = [i \in (DOMAIN jobs) \ {job_id} |-> jobs[i]]
        /\ response' = Respond("delete_job", 200, "", 0)
        /\ UNCHANGED <<jobs_seq, arbeitseinsaetze, ae_seq, listing, conn, machines, machines_seq, stored_roles, resolved>>

RoutesBasePayload ==
    [date |-> "2024-03-01", work_hours |-> "4.5", work_comment |-> "Wegpflege"]

RoutesCreatePayloads ==
    {RoutesBasePayload}
    \cup {RoutesBasePayload @@ ("user_id" :> u) : u \in {"1", "x"}}
    \cup {RoutesBasePayload @@ ("pause_hours" :> h) : h \in {"0", "viel"}}
    \cup {[date |-> "2024-03-01"]}

RoutesUpdatePatches ==
    {<<>>, ("job_id" :> "1"), ("job_id" :> "2") @@ ("status" :> "freigegeben")}
    \cup {("job_id" :> "1") @@ ("status" :> st) : st \in {"freigegeben", "abgerechnet"}}
    \cup {("job_id" :> "1") @@ ("work_comment" :> "Hecke")}
    \cup {("job_id" :> "1") @@ ("user_id" :> u) : u \in {"2", "x"}}
    \cup {("job_id" :> "1") @@ ("machine_id" :> "")}
    \cup {("job_id" :> "1") @@ ("pause_hours" :> "viel")}

\* the blueprint of routes/jobs.py, every request run to completion before the next
NextRoutes ==
    \/ \E a \in Actors, data \in RoutesCreatePayloads :
           jobs_seq < MaxJobs /\ routes_create_job(a, data)
    \/ \E a \in Actors, data \in RoutesUpdatePatches : routes_update_job(a, data)
    \/ \E a \in Actors, data \in DeleteRequests : routes_delete_job(a, data)
    \/ \E a \in Actors, job_ids \in IdLists : approve_jobs(a, job_ids)
    \/ \E a \in Actors, job_ids \in IdLists, data \in RejectPayloads :
           reject_jobs(a, job_ids, data)

SpecRoutes == Init /\ [][NextRoutes]_vars

(***************************************************************************)
(* Table machines and the routes of src/src/routes_machines.py.            *)
(* delete_machine reads (the machine, the count of jobs that use it) and    *)
(* then writes (the DELETE) on its own connection; the reads open no        *)
(* transaction, so requests of other connections can commit in between.     *)
(***************************************************************************)
MaxMachines == 2    \* rows ever inserted into machines

\* routes_machines.can_user_manage_machines
can_user_manage_machines(u) ==
    in_roles("admin", get_user_roles(u)) \/ in_roles("ortsvorsteher", get_user_roles(u))

\* routes_machines.create_machine
create_machine(a, data) ==
    LET answer == IF ~can_user_manage_machines(user[a]) THEN <<403, "Keine Berechtigung">>
                  ELSE IF get(data, "name", "") = "" THEN <<400, "Name ist erforderlich">>
                  ELSE IF has(data, "aktiv") /\ ~can_int(data["aktiv"])
                  THEN <<400, "exception">>
                  ELSE <<200, "machine_id">>
    IN  /\ IF answer[1] = 200
           THEN /\ machines' = machines @@
                       ((machines_seq + 1) :>
                           [name  |-> data["name"],
                            aktiv |-> IF has(data, "aktiv") THEN int(data["aktiv"]) ELSE 1])
                /\ machines_seq' = machines_seq + 1
           ELSE UNCHANGED <<machines, machines_seq>>
        /\ response' = Respond("create_machine", answer[1], answer[2], 0)
        /\ UNCHANGED <<jobs, jobs_seq, arbeitseinsaetze, ae_seq, listing, conn,
                       stored_roles, resolved>>

\* the machine a request names
machine_id_of(data) ==
    IF has(data, "machine_id") /\ can_int(data["machine_id"])
    THEN int(data["machine_id"]) ELSE NULL

\* SELECT COUNT(*) FROM jobs WHERE machine_used = ?
usage_count(tbl, machine_id) ==
    Cardinality({id \in DOMAIN tbl :
        can_int(tbl[id].machine_used) /\ int(tbl[id].machine_used) = machine_id})

NoRequest == [pc |-> "idle", machine_id |-> NULL]

\* delete_machine up to its DELETE: the permission test and the two SELECTs
delete_machine_check(a, data) ==
    LET machine_id == machine_id_of(data)
        answer == IF ~can_user_manage_machines(user[a]) THEN <<403, "Keine Berechtigung">>
                  ELSE IF ~found(machines, machine_id) THEN <<404, "Maschine nicht gefunden">>
                  ELSE IF usage_count(jobs, machine_id) > 0 THEN <<400, "wird verwendet">>
                  ELSE <<0, "">>
    IN  /\ conn.pc = "idle"
        /\ IF answer[1] = 0
           THEN /\ conn' = [pc |-> "delete", machine_id |-> machine_id]
                /\ UNCHANGED response
           ELSE /\ response' = Respond("delete_machine", answer[1], answer[2], 0)
                /\ UNCHANGED conn
        /\ UNCHANGED <<jobs, jobs_seq, arbeitseinsaetze, ae_seq, listing,
                       machines, machines_seq, stored_roles, resolved>>

\* delete_machine: DELETE FROM machines WHERE id = ?, commit, and the answer
delete_machine_delete ==
    /\ conn.pc = "delete"
    /\ machines' = [i \in (DOMAIN machines) \ {conn.machine_id} |-> machines[i]]
    /\ conn' = NoRequest
    /\ response' = Respond("delete_machine", 200, "", 0)
    /\ UNCHANGED <<jobs, jobs_seq, arbeitseinsaetze, ae_seq, listing, machines_seq, stored_roles, resolved>>

MachinePayloads ==
    {<<>>, ("name" :> "Traktor"), ("name" :> "Traktor") @@ ("aktiv" :> "x")}

MachineDeletes == {("machine_id" :> m) : m \in {"1", "2"}}

MachineRefs == {"", "1", "2"}

\* the machine the client picked is one the machines list showed it
listed_machine(m) == m = "" \/ (can_int(m) /\ found(machines, int(m)))

InitMachines ==
    /\ jobs = <<>>
    /\ jobs_seq = 0
    /\ arbeitseinsaetze = <<>>
    /\ ae_seq = 0
    /\ response = Respond("none", 0, "", 0)
    /\ listing = NoListing
    /\ conn = NoRequest
    /\ machines = <<>>
    /\ machines_seq = 0
    /\ stored_roles = <<>>
    /\ resolved = NoAnswer

\* create_job and update_job of other connections between the statements of
\* one delete_machine; every machine reference sent names a machine that exists
NextMachines ==
    \/ \E a \in {1, 3, 5}, data \in MachinePayloads :
           machines_seq < MaxMachines /\ create_machine(a, data)
    \/ \E a \in {1, 3, 5}, data \in MachineDeletes : delete_machine_check(a, data)
    \/ delete_machine_delete
    \/ \E a \in {1, 3}, m \in MachineRefs :
           /\ jobs_seq < MaxJobs
           /\ listed_machine(m)
           /\ create_job(a, BasePayload @@ ("machine_used" :> m))
    \/ \E a \in {1, 3}, m \in MachineRefs :
           /\ listed_machine(m)
           /\ update_job(a, ("job_id" :> "1") @@ ("machine_used" :> m))

SpecMachines == InitMachines /\ [][NextMachines]_vars

\* routes_jobs.get_machines: the ids of the active machines
get_machines == {id \in DOMAIN machines : machines[id].aktiv = 1}

\* create_job with any machine reference a client can send, on machines tables
\* that hold active and inactive machines
NextMachineRefs ==
    \/ \E a \in {3, 5}, data \in {("name" :> "Traktor"),
                                    ("name" :> "Walze") @@ ("aktiv" :> "0")} :
           machines_seq < MaxMachines /\ create_machine(a, data)
    \/ \E a \in {1, 3}, m \in MachineRefs :
           /\ jobs_seq < MaxJobs
           /\ create_job(a, BasePayload @@ ("machine_used" :> m))
    \/ \E a \in {1, 3}, m \in MachineRefs :
           update_job(a, ("job_id" :> "1") @@ ("machine_used" :> m))
    \/ \E a \in {3, 5}, data \in MachineDeletes : delete_machine_check(a, data)
    \/ delete_machine_delete

SpecMachineRefs == InitMachines /\ [][NextMachineRefs]_vars

\* the role resolvers on every role text of up to MaxRoleLen symbols: role
\* words, an unknown word, commas and blanks
MaxRoleLen == 3

RoleSymbols == {"admin", "wegewart", "gast", ",", " "}

RoleTexts == UNION {[1..n -> RoleSymbols] : n \in 0..MaxRoleLen}

RoleProbes == {"admin", "wegewart", "gast", "verwaltung"}

InitRoles ==
    /\ jobs = <<>>
    /\ jobs_seq = 0
    /\ arbeitseinsaetze = <<>>
    /\ ae_seq = 0
    /\ response = Respond("none", 0, "", 0)
    /\ listing = NoListing
    /\ conn = <<>>
    /\ machines = <<>>
    /\ machines_seq = 0
    /\ stored_roles \in RoleTexts
    /\ resolved = NoAnswer

NextRoles ==
    \/ get_user_roles_call
    \/ \E role \in RoleProbes : has_role_call(role)
    \/ \E allowed_roles \in {{"admin", "verwaltung"}, {"gast"}} :
           rolle_required_call(allowed_roles)

SpecRoles == InitRoles /\ [][NextRoles]_vars

\* update_job and delete_job asked once on every table of up to MaxUpdateRows
\* rows of either owner and any status
MaxUpdateRows == 2

UpdateRows ==
    {ListRow(o, "2024-03-01", st) :
        o \in {1, 2}, st \in {"erfasst", "freigegeben", "abgelehnt", "abgerechnet"}}

FramePatches ==
    UpdatePatches
    \cup {<<>>, ("job_id" :> "9"), ("job_id" :> "x") @@ ("status" :> "erfasst")}
    \cup {("job_id" :> "1") @@ ("user_id" :> u) : u \in {"2", "x"}}
    \cup {("job_id" :> "1") @@ ("machine_used" :> m) : m \in {"", "1"}}
    \cup {("job_id" :> "1") @@ ("arbeitsstunden" :> h) : h \in {"0", "viel"}}
    \cup {("job_id" :> "2") @@ ("datum" :> "2024-03-02") @@ ("status" :> "abgelehnt")}

InitUpdate ==
    /\ jobs \in UNION {[1..n -> UpdateRows] : n \in 0..MaxUpdateRows}
    /\ jobs_seq = Len(jobs)
    /\ arbeitseinsaetze = <<>>
    /\ ae_seq = 0
    /\ response = Respond("none", 0, "", 0)
    /\ listing = NoListing
    /\ conn = <<>>
    /\ machines = <<>>
    /\ machines_seq = 0
    /\ stored_roles = <<>>
    /\ resolved = NoAnswer

NextUpdate ==
    \/ \E a \in Actors, data \in FramePatches :
           response.op = "none" /\ update_job(a, data)
    \/ \E a \in Actors, data \in DeleteRequests :
           response.op = "none" /\ delete_job(a, data)

SpecUpdate == InitUpdate /\ [][NextUpdate]_vars

\* one batch request on every table of up to MaxBatchRows rows
BatchFrameRows ==
    {ListRow(o, "2024-03-01", st) : o \in {1, 2}, st \in {"erfasst", "freigegeben"}}

InitBatchFrame ==
    /\ jobs \in UNION {[1..n -> BatchFrameRows] : n \in 0..MaxBatchRows}
    /\ jobs_seq = Len(jobs)
    /\ arbeitseinsaetze \in
           UNION {[1..n -> {ListRow(1, "2024-03-01", "erfasst")}] : n \in 0..MaxBatchRows}
    /\ ae_seq = Len(arbeitseinsaetze)
    /\ response = Respond("none", 0, "", 0)
    /\ listing = NoListing
    /\ conn = <<>>
    /\ machines = <<>>
    /\ machines_seq = 0
    /\ stored_roles = <<>>
    /\ resolved = NoAnswer

NextBatchFrame ==
    \/ \E a \in BatchActors, job_ids \in BatchIdLists :
           response.op = "none" /\ approve_jobs(a, job_ids)
    \/ \E a \in BatchActors, job_ids \in BatchIdLists, data \in BatchRejectPayloads :
           response.op = "none" /\ reject_jobs(a, job_ids, data)
    \/ \E a \in BatchActors, ids \in BatchIdTextLists :
           response.op = "none" /\ einsaetze_massenfreigabe(a, ids)

SpecBatchFrame == InitBatchFrame /\ [][NextBatchFrame]_vars

\* entries created and reassigned by user id, and the batches run on them
OwnerPayloads ==
    {BasePayload} \cup {BasePayload @@ ("user_id" :> u) : u \in {"2", "9"}}

OwnerPatches ==
    {("job_id" :> j) @@ ("user_id" :> u) : j \in {"1", "2"}, u \in {"1", "9"}}

NextOwners ==
    \/ \E a \in {1, 3, 5}, data \in OwnerPayloads :
           jobs_seq < MaxBatchRows /\ create_job(a, data)
    \/ \E a \in {1, 3, 5}, data \in OwnerPatches : update_job(a, data)
    \/ \E a \in BatchActors, job_ids \in BatchIdLists : approve_jobs(a, job_ids)
    \/ \E a \in BatchActors, job_ids \in BatchIdLists, data \in BatchRejectPayloads :
           reject_jobs(a, job_ids, data)

SpecOwners == Init /\ [][NextOwners]_vars

(***************************************************************************)
(* The properties checked                                                  *)
(***************************************************************************)
Submitted == {"erfasst"}
Approved  == {"freigegeben", "freigegeben_ov"}
Billed    == {"abgerechnet"}
Rejected  == {"abgelehnt"}

RolesOf(a) == get_user_roles(user[a])

WorkerOnly(a) ==
    /\ in_roles("wegewart", RolesOf(a))
    /\ ~in_roles("ortsvorsteher", RolesOf(a))
    /\ ~in_roles("verwaltung", RolesOf(a))
    /\ ~in_roles("admin", RolesOf(a))

SupervisorHighest(a) ==
    /\ in_roles("ortsvorsteher", RolesOf(a))
    /\ ~in_roles("verwaltung", RolesOf(a))
    /\ ~in_roles("admin", RolesOf(a))

Central(a) == in_roles("admin", RolesOf(a)) \/ in_roles("verwaltung", RolesOf(a))

OwnerDistrictIs(row, a) ==
    user_found(row.user_id) /\ user[row.user_id].ortsteil = user[a].ortsteil

\* the visibility scope of the actor, by the highest role held
InScope(a, row) ==
    IF Central(a) THEN TRUE
    ELSE IF in_roles("ortsvorsteher", RolesOf(a)) THEN OwnerDistrictIs(row, a)
    ELSE row.user_id = a

LifecycleEdge(s, t) ==
    \/ s = t
    \/ s \in Submitted /\ t \in Approved \cup Rejected
    \/ s \in Approved /\ t \in Billed

\* C1: the status of an entry changes only along submitted -> approved,
\* submitted -> rejected and approved -> billed, whatever request is handled;
\* a rejected or billed entry keeps its status.
C1_StatusLifecycle ==
    [][\A id \in (DOMAIN jobs) \cap (DOMAIN jobs') :
           LifecycleEdge(jobs[id].status, jobs'[id].status)]_vars

Done(c) == conn[c].pc = "done"

MayApprove(c, id) ==
    can_approve(RolesOf(conn[c].actor), get_user_villages(user[conn[c].actor]), jobs[id])

\* C2: of two batch approvals by authorized actors that name the same submitted
\* entry and run on their own connections, exactly one counts the entry.
C2_ExactlyOneApprovalCounts ==
    \A c, d \in Conns :
        (/\ c # d /\ Done(c) /\ Done(d)
         /\ conn[c].kind = "approve" /\ conn[d].kind = "approve"
         /\ conn[c].code = 200 /\ conn[d].code = 200
         /\ MayApprove(c, 1) /\ MayApprove(d, 1))
        => ((conn[c].count > 0) # (conn[d].count > 0))

\* C3: a batch approval and a batch rejection racing on one submitted entry do not
\* both count it, and the entry does not end with the status of one call and the
\* reviewer or the rejection reason of the other.
C3_ApproveRejectExclusive ==
    \A c, d \in Conns :
        (/\ c # d /\ Done(c) /\ Done(d)
         /\ conn[c].kind = "approve" /\ conn[d].kind = "reject"
         /\ conn[c].code = 200 /\ conn[d].code = 200
         /\ MayApprove(c, 1) /\ MayApprove(d, 1))
        => /\ ~(conn[c].count > 0 /\ conn[d].count > 0)
           /\ jobs[1].status \in Approved =>
                  /\ jobs[1].checked_by = conn[c].actor
                  /\ jobs[1].rejection_reason = None
           /\ jobs[1].status \in Rejected =>
                  /\ jobs[1].checked_by = conn[d].actor
                  /\ jobs[1].rejection_reason = conn[d].reason

\* the table a list view reads
ListedTable == IF listing.op = "jobs" THEN jobs ELSE arbeitseinsaetze

\* C4: the list a worker (no supervisor, administration or admin role) gets holds
\* only entries the worker owns, whatever the filters and the table.
C4_WorkerListsOwnEntries ==
    (listing.op # "none" /\ WorkerOnly(listing.actor))
        => \A id \in listing.rows : ListedTable[id].user_id = listing.actor

C4_Witness ==
    /\ listing.op = "jobs"
    /\ WorkerOnly(listing.actor)
    /\ listing.rows # {}
    /\ \E id \in DOMAIN jobs : jobs[id].user_id # listing.actor

\* C5: the list a supervisor (no admin or administration role) gets holds only
\* entries whose owner is of the supervisor's district.
C5_SupervisorListsOwnDistrict ==
    (listing.op # "none" /\ SupervisorHighest(listing.actor))
        => \A id \in listing.rows : OwnerDistrictIs(ListedTable[id], listing.actor)

C5_Witness ==
    /\ listing.op = "einsaetze_liste"
    /\ SupervisorHighest(listing.actor)
    /\ listing.rows # {}
    /\ \E id \in DOMAIN arbeitseinsaetze :
           ~OwnerDistrictIs(arbeitseinsaetze[id], listing.actor)

\* the rows a list of id texts names
Named(tbl, ids) ==
    {id \in DOMAIN tbl : \E k \in DOMAIN ids : can_int_tok(ids[k]) /\ int_tok(ids[k]) = id}

\* C6: a batch approval by an authorized actor whose list names submitted and
\* approved entries changes only the submitted entries in scope that the list
\* names, leaves every other entry as it was, and counts exactly those entries,
\* a repeated id once.
C6_BatchApproveOnlySubmitted ==
    [][\A a \in BatchActors, ids \in BatchIdTextLists :
           (/\ einsaetze_massenfreigabe(a, ids)
            /\ rolle_required(a, Reviewers)
            /\ \E id \in Named(arbeitseinsaetze, ids) :
                   arbeitseinsaetze[id].status \in Submitted
            /\ \E id \in Named(arbeitseinsaetze, ids) :
                   arbeitseinsaetze[id].status \in Approved)
           => LET eligible == {id \in Named(arbeitseinsaetze, ids) :
                                  /\ arbeitseinsaetze[id].status \in Submitted
                                  /\ InScope(a, arbeitseinsaetze[id])}
              IN  /\ \A id \in (DOMAIN arbeitseinsaetze) \ eligible :
                         arbeitseinsaetze'[id] = arbeitseinsaetze[id]
                  /\ \A id \in eligible : arbeitseinsaetze'[id].status \notin Submitted
                  /\ response'.count = Cardinality(eligible)]_vars

\* C7: a rejection by an authorized actor without a reason is refused and changes
\* no entry, also when its list names a submitted entry in the actor's scope.
C7_RejectNeedsReason ==
    [][\A a \in Actors, job_ids \in IdLists, data \in RejectPayloads :
           (/\ reject_jobs(a, job_ids, data)
            /\ privileged(RolesOf(a))
            /\ \E k \in DOMAIN job_ids :
                   /\ found(jobs, job_ids[k])
                   /\ jobs[job_ids[k]].status \in Submitted
                   /\ InScope(a, jobs[job_ids[k]])
            /\ get(data, "rejection_reason", "") = "")
           => (jobs' = jobs /\ response'.code = 400)]_vars

\* C8: an approval moves a submitted entry to approved when a supervisor acts and
\* to billed when the actor holds the admin or the administration role.
C8_ApproveResultByRole ==
    [][\A a \in Actors, job_ids \in IdLists :
           approve_jobs(a, job_ids)
           => \A id \in DOMAIN jobs :
                  (jobs[id].status \in Submitted /\ jobs'[id].status \notin Submitted)
                  => jobs'[id].status \in (IF Central(a) THEN Billed ELSE Approved)]_vars

\* C9: a batch approval or rejection by a supervisor (no admin or administration
\* role) leaves every entry of another district as it was and does not count it.
C9_BatchStaysInDistrict ==
    [][\A a \in BatchActors :
           SupervisorHighest(a) =>
               /\ \A ids \in BatchIdTextLists :
                      einsaetze_massenfreigabe(a, ids)
                      => /\ \A id \in DOMAIN arbeitseinsaetze :
                                ~OwnerDistrictIs(arbeitseinsaetze[id], a)
                                => arbeitseinsaetze'[id] = arbeitseinsaetze[id]
                         /\ response'.count <=
                                Cardinality({k \in DOMAIN ids :
                                    \A id \in Named(arbeitseinsaetze, <<ids[k]>>) :
                                        OwnerDistrictIs(arbeitseinsaetze[id], a)})
               /\ \A form \in MassenablehnungForms :
                      einsaetze_massenablehnung(a, form)
                      => \A id \in DOMAIN arbeitseinsaetze :
                             ~OwnerDistrictIs(arbeitseinsaetze[id], a)
                             => arbeitseinsaetze'[id] = arbeitseinsaetze[id]]_vars

\* C10: right after a successful create_job the new entry is submitted and has no
\* reviewer, no review time and no rejection reason, whatever the payload held.
C10_CreatedSubmitted ==
    (response.op = "create_job" /\ response.code = 200)
        => /\ jobs[jobs_seq].status \in Submitted
           /\ jobs[jobs_seq].checked_by = NULL
           /\ jobs[jobs_seq].checked_time = None
           /\ jobs[jobs_seq].rejection_reason = None

\* the payload is complete and names an owner other than the actor
NamesOtherOwner(a, data) ==
    /\ has(data, "user_id") /\ can_int(data["user_id"]) /\ int(data["user_id"]) # a
    /\ has(data, "datum") /\ has(data, "taetigkeitsbeschreibung")
    /\ has(data, "arbeitsstunden") /\ can_float(data["arbeitsstunden"])

\* C11: a create_job that names an owner other than the actor stores the entry
\* when the actor holds the supervisor, admin or administration role, and is
\* refused with 403, adding no entry, for every other actor.
C11_CreateForOtherByRole ==
    [][\A a \in Actors, data \in CreatePayloads :
           (create_job(a, data) /\ NamesOtherOwner(a, data))
           => IF Central(a) \/ in_roles("ortsvorsteher", RolesOf(a))
              THEN /\ response'.code = 200
                   /\ jobs'[jobs_seq'].user_id = int(data["user_id"])
              ELSE /\ response'.code = 403
                   /\ jobs' = jobs]_vars

\* C12: an update_job by an actor without the admin role on an entry that is
\* approved, rejected or billed, with a patch that names a field to change, is
\* refused with 403 and leaves the entry as it was, whether the actor is the
\* owner, a supervisor or of the administration.
C12_ReviewedEntryAdminOnly ==
    [][\A a \in Actors, data \in UpdatePatches :
           (/\ update_job(a, data)
            /\ found(jobs, job_id_of(data))
            /\ jobs[job_id_of(data)].status \in Approved \cup Rejected \cup Billed
            /\ has(data, "taetigkeitsbeschreibung")
            /\ ~in_roles("admin", RolesOf(a)))
           => (response'.code = 403 /\ jobs' = jobs)]_vars

\* C13: an update by the owning worker (no supervisor, admin or administration
\* role) on the own submitted entry leaves the status of the entry as it was,
\* whatever the patch holds.
C13_OwnerCannotSetStatus ==
    [][\A a \in Actors, data \in RoutesUpdatePatches :
           (/\ routes_update_job(a, data)
            /\ WorkerOnly(a)
            /\ found(jobs, job_id_of(data))
            /\ jobs[job_id_of(data)].user_id = a
            /\ jobs[job_id_of(data)].status \in Submitted)
           => jobs'[job_id_of(data)].status = jobs[job_id_of(data)].status]_vars

\* C14: a delete_job by an actor whose highest role is worker on an entry of
\* someone else, or on an own entry that is approved, billed or rejected, is
\* refused with 403 and the entry stays in the table.
C14_WorkerDeletesOwnSubmittedOnly ==
    [][\A a \in Actors, data \in DeleteRequests :
           (/\ delete_job(a, data)
            /\ WorkerOnly(a)
            /\ found(jobs, job_id_of(data))
            /\ ~(/\ jobs[job_id_of(data)].user_id = a
                 /\ jobs[job_id_of(data)].status \in Submitted))
           => (response'.code = 403 /\ jobs' = jobs)]_vars

\* the entries the step moves into billed
NewlyBilled == {id \in (DOMAIN jobs) \cap (DOMAIN jobs') :
                   jobs[id].status \notin Billed /\ jobs'[id].status \in Billed}

\* C15: an update_job or approve_jobs puts an entry into billed only when the
\* actor holds the admin or the administration role and the entry was approved;
\* a supervisor bills no entry through either request.
C15_BilledByCentralFromApproved ==
    [][\A a \in Actors :
           /\ \A data \in UpdatePatches :
                  update_job(a, data)
                  => (\A id \in NewlyBilled : Central(a) /\ jobs[id].status \in Approved)
           /\ \A job_ids \in IdLists :
                  approve_jobs(a, job_ids)
                  => (\A id \in NewlyBilled : Central(a) /\ jobs[id].status \in Approved)]_vars

\* C16: whatever create_job and update_job requests run between the statements
\* of a delete_machine, every entry that names a machine names a machine that
\* is in the machines table.
C16_MachineReferenceExists ==
    \A id \in DOMAIN jobs :
        jobs[id].machine_used # None
            => (can_int(jobs[id].machine_used) /\ found(machines, int(jobs[id].machine_used)))

NoJobsArgs == [wegewart_filter |-> "", date_from |-> "", date_to |-> "", village_filter |-> ""]

NoEinsaetzeArgs == [von |-> "", bis |-> "", wegewart |-> "", status |-> ""]

\* the filter names a worker whose entries are outside the scope of the actor
WorkerOutsideScope(a, text) ==
    text # "" /\ can_int(text) /\ ~InScope(a, [user_id |-> int(text)])

\* the filter names a district of which the actor sees no entry
DistrictOutsideScope(a, text) ==
    text # "" /\ ~Central(a) /\ text # user[a].ortsteil

\* C17: for every actor the list got with filters is a subset of the list the
\* actor gets without filters, and a worker or district filter that names a
\* worker or district outside the scope of the actor gives the empty list.
C17_FiltersOnlyNarrow ==
    [][\A a \in Actors :
           /\ \A args \in JobsArgs :
                  jobs_view(a, args)
                  => /\ listing'.rows \subseteq jobs_rows(jobs, a, NoJobsArgs)
                     /\ WorkerOutsideScope(a, args.wegewart_filter) => listing'.rows = {}
                     /\ DistrictOutsideScope(a, args.village_filter) => listing'.rows = {}
           /\ \A args \in EinsaetzeArgs :
                  einsaetze_liste(a, args)
                  => /\ listing'.rows \subseteq
                            einsaetze_rows(arbeitseinsaetze, a, NoEinsaetzeArgs)
                     /\ WorkerOutsideScope(a, args.wegewart) => listing'.rows = {}]_vars

\* the entries of known owners in the scope of the actor
ScopeOf(tbl, a) == {id \in DOMAIN tbl : user_found(tbl[id].user_id) /\ InScope(a, tbl[id])}

\* C18: without filters every actor lists exactly the entries of the scope of
\* the highest role held: all entries for admin or administration, else the
\* entries of the own district for a supervisor, else the own entries.
C18_ScopeByHighestRole ==
    [][\A a \in Actors :
           /\ jobs_view(a, NoJobsArgs) => listing'.rows = ScopeOf(jobs, a)
           /\ einsaetze_liste(a, NoEinsaetzeArgs)
                  => listing'.rows = ScopeOf(arbeitseinsaetze, a)]_vars

\* C19: the workers listed for a supervisor (no admin or administration role)
\* are users of the supervisor's district whose roles hold the worker tag, and
\* the workers listed for an actor with no role above worker are exactly the
\* actor.
C19_WorkerListingByScope ==
    /\ (listing.op # "none" /\ SupervisorHighest(listing.actor))
           => \A u \in listing.wegewarte :
                  /\ user[u].ortsteil = user[listing.actor].ortsteil
                  /\ in_roles("wegewart", RolesOf(u))
    /\ (listing.op # "none" /\ WorkerOnly(listing.actor))
           => listing.wegewarte = {listing.actor}

\* the positions that bound the comma-separated pieces of a text
Cuts(text) == {0, Len(text) + 1} \cup {i \in 1..Len(text) : text[i] = ","}

\* the piece that starts after the cut b
Piece(text, b) ==
    LET e == CHOOSE x \in Cuts(text) : x > b /\ \A y \in Cuts(text) : y > b => x <= y
    IN  SubSeq(text, b + 1, e - 1)

\* a piece without the blanks around it
Trimmed(piece) ==
    LET inked == {i \in 1..Len(piece) : piece[i] # " "}
    IN  IF inked = {} THEN <<>>
        ELSE SubSeq(piece,
                    CHOOSE i \in inked : \A j \in inked : i <= j,
                    CHOOSE i \in inked : \A j \in inked : i >= j)

\* the role set of a stored text: empty for the empty text, else its trimmed pieces
RoleSet(text) ==
    IF text = <<>> THEN {}
    ELSE {Trimmed(Piece(text, b)) : b \in Cuts(text) \ {Len(text) + 1}}

\* C20: for every stored role text get_user_roles returns the trimmed
\* comma-separated tokens of the text, unknown tokens included, and nothing for
\* the empty text; has_role(text, r) is true exactly when r is one of them, and
\* the test of rolle_required exactly when one of the allowed roles is.
C20_ResolverGivesTrimmedTokens ==
    /\ resolved.op = "get_user_roles"
           => {resolved.roles[i] : i \in DOMAIN resolved.roles} = RoleSet(stored_roles)
    /\ resolved.op = "has_role"
           => (resolved.answer <=> (<<resolved.role>> \in RoleSet(stored_roles)))
    /\ resolved.op = "rolle_required"
           => (resolved.answer <=>
                  \E r \in resolved.allowed : <<r>> \in RoleSet(stored_roles))

C20_Witness ==
    /\ resolved.op = "get_user_roles"
    /\ stored_roles = <<"gast", " ", ",">>
    /\ resolved.roles = << <<"gast">>, <<>> >>

\* C21: a create_job by an actor whose highest role is supervisor that names an
\* owner of another district is refused and stores nothing.
C21_SupervisorCreatesInDistrict ==
    [][\A a \in Actors, data \in CreatePayloads :
           (/\ create_job(a, data)
            /\ NamesOtherOwner(a, data)
            /\ SupervisorHighest(a)
            /\ user_found(int(data["user_id"]))
            /\ user[int(data["user_id"])].ortsteil # user[a].ortsteil)
           => (response'.code # 200 /\ jobs' = jobs)]_vars

\* the payload lacks the date, lacks or empties the description, or its hours
\* are missing, not a number or negative
InvalidEntry(data) ==
    \/ ~has(data, "datum")
    \/ get(data, "taetigkeitsbeschreibung", "") = ""
    \/ ~has(data, "arbeitsstunden")
    \/ ~can_float(data["arbeitsstunden"])
    \/ float(data["arbeitsstunden"]) < 0

\* C22: a create_job whose payload lacks the date, lacks or empties the
\* description, or whose hours are missing, not a number or negative, is refused
\* with 400 and stores nothing.
C22_CreateValidates ==
    [][\A a \in Actors, data \in CreatePayloads :
           (create_job(a, data) /\ ~has(data, "user_id") /\ InvalidEntry(data))
           => (response'.code = 400 /\ jobs' = jobs)]_vars

\* the reference names a machine that is in the table and active
ActiveMachine(m) == can_int(m) /\ int(m) \in get_machines

\* C23: a create_job whose payload names a machine that does not exist or is
\* not active is refused and stores nothing; a stored entry has no machine
\* reference or one to a machine active at the time of the call.
C23_CreateNeedsActiveMachine ==
    [][\A a \in {1, 3}, m \in MachineRefs :
           (/\ create_job(a, BasePayload @@ ("machine_used" :> m))
            /\ m # ""
            /\ ~ActiveMachine(m))
           => (response'.code # 200 /\ jobs' = jobs)]_vars

\* C24: after an approval or a rejection of a single entry that changes its
\* status, the reviewer of the entry is the acting user and its review time is
\* set, and after a rejection the stored reason is the reason supplied.
C24_ReviewStampsReviewer ==
    [][\A a \in Actors, id \in 1..MaxEinsaetze :
           /\ (/\ einsatz_freigeben(a, id)
               /\ found(arbeitseinsaetze, id)
               /\ arbeitseinsaetze'[id].status # arbeitseinsaetze[id].status)
              => (/\ arbeitseinsaetze'[id].checked_by = a
                  /\ arbeitseinsaetze'[id].checked_time # None)
           /\ \A form \in AblehnenForms :
                  (/\ einsatz_ablehnen(a, id, form)
                   /\ found(arbeitseinsaetze, id)
                   /\ arbeitseinsaetze'[id].status # arbeitseinsaetze[id].status)
                  => (/\ arbeitseinsaetze'[id].checked_by = a
                      /\ arbeitseinsaetze'[id].checked_time # None
                      /\ arbeitseinsaetze'[id].rejection_reason =
                             get(form, "ablehnungsgrund", ""))]_vars

\* the columns a patch names, and the reviewer columns when it sets the status
\* to approved or rejected
PatchColumns(data) ==
    ((DOMAIN data) \ {"job_id"})
    \cup (IF has(data, "status") /\ data["status"] \in {"freigegeben", "abgelehnt"}
          THEN {"checked_by", "checked_time"} ELSE {})

\* C25: a successful update_job changes only columns the patch names (and the
\* reviewer columns when the patch sets the status to approved or rejected) of
\* the entry it names and nothing of any other entry; an update_job whose id
\* names no entry answers 404 and changes nothing.
C25_UpdateFrame ==
    [][\A a \in Actors, data \in FramePatches :
           update_job(a, data)
           => IF ~found(jobs, job_id_of(data))
              THEN response'.code = 404 /\ jobs' = jobs
              ELSE response'.code = 200
                   => /\ DOMAIN jobs' = DOMAIN jobs
                      /\ \A id \in (DOMAIN jobs) \ {job_id_of(data)} : jobs'[id] = jobs[id]
                      /\ \A c \in DOMAIN jobs[job_id_of(data)] :
                             jobs'[job_id_of(data)][c] # jobs[job_id_of(data)][c]
                             => c \in PatchColumns(data)]_vars

C25_Witness ==
    /\ response.op = "update_job" /\ response.code = 200
    /\ Len(jobs) = 2
    /\ jobs[1].taetigkeitsbeschreibung = "Hecke"
    /\ jobs[2].taetigkeitsbeschreibung = "Wegpflege"

\* C26: an update_job or delete_job of the owning worker whose entry has been
\* approved between the call's status check and its write does not take
\* effect: the committed table is unchanged and the call does not answer 200.
C26_OwnerWriteAfterApproveConflicts ==
    [][\A c \in Conns :
           (/\ edit_commit(c)
            /\ WorkerOnly(conn[c].actor)
            /\ conn[c].job[1].user_id = conn[c].actor
            /\ found(jobs, job_id_of(conn[c].data[1]))
            /\ jobs[job_id_of(conn[c].data[1])].status = "freigegeben")
           => (jobs' = jobs /\ conn'[c].code # 200)]_vars

\* C27: a batch approve that meets a failure at an id of its list after it has
\* written an earlier entry of the list leaves the table as it was and reports
\* a failure, not a count.
C27_BatchFailureRollsBack ==
    [][\A a \in Actors, einsatz_ids \in IdTextLists :
           (/\ einsaetze_massenfreigabe(a, einsatz_ids)
            /\ rolle_required(a, Reviewers)
            /\ \E j, k \in DOMAIN einsatz_ids :
                   /\ j < k
                   /\ can_int_tok(einsatz_ids[j])
                   /\ found(arbeitseinsaetze, int_tok(einsatz_ids[j]))
                   /\ ~can_int_tok(einsatz_ids[k]))
           => (/\ arbeitseinsaetze' = arbeitseinsaetze
               /\ response'.msg # "freigegeben")]_vars

\* what a batch leaves alone: the table keeps its rows, every row keeps owner,
\* date, hours, description and machine, and a row not named keeps every column
BatchFrame(old, new, named) ==
    /\ DOMAIN new = DOMAIN old
    /\ \A id \in DOMAIN old :
           /\ new[id].user_id = old[id].user_id
           /\ new[id].datum = old[id].datum
           /\ new[id].arbeitsstunden = old[id].arbeitsstunden
           /\ new[id].taetigkeitsbeschreibung = old[id].taetigkeitsbeschreibung
           /\ new[id].machine_used = old[id].machine_used
           /\ id \notin named => new[id] = old[id]

SameReasons(old, new) ==
    \A id \in DOMAIN old : new[id].rejection_reason = old[id].rejection_reason

\* C28: approve_jobs, reject_jobs and einsaetze_massenfreigabe leave owner,
\* date, hours, description and machine of every entry unchanged and every
\* column of every entry whose id is not in the list; the approvals also leave
\* every rejection reason unchanged.
C28_BatchFrame ==
    [][\A a \in BatchActors :
           /\ \A job_ids \in BatchIdLists :
                  /\ approve_jobs(a, job_ids)
                         => (/\ BatchFrame(jobs, jobs', {job_ids[k] : k \in DOMAIN job_ids})
                             /\ SameReasons(jobs, jobs'))
                  /\ \A data \in BatchRejectPayloads :
                         reject_jobs(a, job_ids, data)
                         => BatchFrame(jobs, jobs', {job_ids[k] : k \in DOMAIN job_ids})
           /\ \A ids \in BatchIdTextLists :
                  einsaetze_massenfreigabe(a, ids)
                  => (/\ BatchFrame(arbeitseinsaetze, arbeitseinsaetze',
                                    {int_tok(ids[k]) : k \in DOMAIN ids})
                      /\ SameReasons(arbeitseinsaetze, arbeitseinsaetze'))]_vars

C28_Witness ==
    /\ response.op = "approve_jobs" /\ response.count = 1
    /\ Len(jobs) = 2
    /\ jobs[1].status = "freigegeben" /\ jobs[1].checked_by = 3
    /\ jobs[2].status = "erfasst" /\ jobs[2].user_id = 1

\* C29: an update_job by an actor who holds neither the admin nor the
\* ortsvorsteher role leaves the user_id of every entry unchanged, whatever
\* user_id the patch names.
C29_WorkerCannotReassign ==
    [][\A a \in Actors, data \in RoutesUpdatePatches :
           (/\ routes_update_job(a, data)
            /\ ~in_roles("admin", RolesOf(a))
            /\ ~in_roles("ortsvorsteher", RolesOf(a))
            /\ has(data, "user_id"))
           => \A id \in DOMAIN jobs :
                  id \in DOMAIN jobs' /\ jobs'[id].user_id = jobs[id].user_id]_vars

\* C30: every entry's user_id names an existing user, so that approve_jobs
\* and reject_jobs of an ortsvorsteher whose list names an existing entry
\* resolve the owner's ortsteil and answer 200 with a count.
C30_OwnerExistsSoBatchCompletes ==
    [][\A a \in BatchActors, job_ids \in BatchIdLists :
           /\ (/\ approve_jobs(a, job_ids)
               /\ in_roles("ortsvorsteher", RolesOf(a))
               /\ \E k \in DOMAIN job_ids : found(jobs, job_ids[k]))
              => (/\ \A id \in DOMAIN jobs : user_found(jobs[id].user_id)
                  /\ response'.code = 200)
           /\ \A data \in BatchRejectPayloads :
                  (/\ reject_jobs(a, job_ids, data)
                   /\ in_roles("ortsvorsteher", RolesOf(a))
                   /\ get(data, "rejection_reason", "") # ""
                   /\ \E k \in DOMAIN job_ids : found(jobs, job_ids[k]))
                  => (/\ \A id \in DOMAIN jobs : user_found(jobs[id].user_id)
                      /\ response'.code = 200)]_vars

====
